---- MODULE Spec2Model ----
(***************************************************************************)
(* Model of the pmem buddy heap (allocations/heap.rs) and of the           *)
(* allocation facade in front of it (allocations.rs, global.rs, sync.rs).  *)
(*                                                                         *)
(* Addresses are absolute byte addresses.  Memory is tracked at the first  *)
(* word of every MIN_HEAP_ALIGN-sized granule of the heap region: that is  *)
(* where a FreeBlock header (its `next` pointer) lives while a block is    *)
(* free and where the caller's data lives while the block is handed out.   *)
(***************************************************************************)
EXTENDS Integers, Sequences, FiniteSets, Bags, TLC

(* ---------------------------------------------------------------- bounds *)

\* The most allocations that are handed out to callers at one time.
MaxLive == 4

\* The number of concurrent callers of the facade.
NumProcs == 2
MaxHeld == 2
NumPages == 6
UsizeBits == 16
MaxMaps == 2
MaxUnmaps == 2

(* ------------------------------------------------------ program constants *)

\* ptr::null_mut()
NULL == 0

\* Option::None of an Option<usize>
NONE == -1

MIN_HEAP_ALIGN == 4096

\* mem::size_of::<FreeBlock>(): one pointer
SizeOfFreeBlock == 8

(* ----------------------------------------------------------------- inputs *)

\* The region handed to heap::init: a base aligned to MIN_HEAP_ALIGN.
HeapBase == 16 * MIN_HEAP_ALIGN

\* The granules of the largest region: the addresses a block can start at.
Granule == MIN_HEAP_ALIGN \div 2
Addrs == {HeapBase + k * Granule : k \in 0..31}

\* (heap_base, heap_size, free_lists.len()) passed to heap::init.  The last
\* one is not a power of two and is refused by Heap::new's assertions.
HeapConfigs ==
   { <<HeapBase, 65536, 5>>, <<HeapBase, 8192, 3>>, <<HeapBase, 49152, 5>> }

Layout(size, align) == [size |-> size, align |-> align]

\* Layouts callers pass to Heap::allocate.
CallLayouts ==
   { Layout(1024, 1), Layout(16, 4096), Layout(8192, 8), Layout(65536, 1),
     Layout(65537, 1), Layout(1024, 3), Layout(1024, 8192) }

\* The request of the 64 KiB scenario: 1 KiB, byte aligned.
OneKiB == Layout(1024, 1)

\* Layouts the pure size computation is compared on.
AllLayouts ==
   { Layout(s, a) : s \in {0, 1, 8, 1024, 4095, 4096, 4097, 8192, 12288,
                          16384, 32768, 32769, 65536, 65537, 131072},
                    a \in {1, 2, 3, 8, 24, 1024, 4096, 8192, 12288} }

\* Words a caller stores at the start of a block it owns.
CallerWords == {NULL, HeapBase}

(* ------------------------------------------------- pcore::math::PowersOfTwo *)

RECURSIVE IsPo2(_)
IsPo2(x) == x > 0 /\ (x = 1 \/ (x % 2 = 0 /\ IsPo2(x \div 2)))

RECURSIVE NextPo2From(_, _)
NextPo2From(x, p) == IF p >= x THEN p ELSE NextPo2From(x, 2 * p)

NextPo2(x) == NextPo2From(x, 1)

RECURSIVE Log2(_)
Log2(x) == IF x <= 1 THEN 0 ELSE 1 + Log2(x \div 2)

\* a ^ b on usize
RECURSIVE Xor(_, _)
Xor(a, b) ==
   IF a = 0 THEN b
   ELSE IF b = 0 THEN a
   ELSE (((a % 2) + (b % 2)) % 2) + 2 * Xor(a \div 2, b \div 2)

\* a >> n on usize
Shr(a, n) == a \div (2 ^ n)

Min(a, b) == IF a <= b THEN a ELSE b
Max(a, b) == IF a >= b THEN a ELSE b

(* ------------------------------------------------------------------ state *)

VARIABLES
   heap,     \* HEAP: Option<Heap>; heap.some = FALSE is None
   mem,      \* the words written in the heap region, by address
   live,     \* bag of the blocks handed out and not yet given back
   last,     \* the call that completed last and what it returned
   halted,   \* the program has panicked or hangs
   run1k,    \* calls since heap::init while all were allocate(OneKiB), else NONE
   lock,     \* the holder of the HEAP mutex, or 0
   outer,    \* the holder of the Locked<Global> mutex, or 0
   pc,       \* where each caller of the facade is in its call
   frame,    \* each caller's current (or last) facade call
   lcall,    \* the last Layout::from_size_align call and its result
   build,    \* "debug": debug_assert! and overflow checks are on; "release": off
   ftab,     \* the Frame Table: the flags byte of each Page, by index
   runs,     \* the runs paging::allocate returned and the caller still owns
   pcall,    \* the last paging call and how it ended
   pmem,     \* what each page of the allocatable region holds
   ptes,     \* the non-zero page-table entries, by <<page of the table, index>>
   mcall,    \* the last map / unmap / virt_to_phys call and how it ended
   freed     \* bag of the pointers unmap passed to paging::deallocate since the last map

avars == <<heap, mem, live, last, halted, run1k, lock, outer, pc, frame>>
mvars == <<ptes, mcall, freed>>
xvars == <<lcall, build, ftab, runs, pcall, pmem, mvars>>
vars == <<avars, xvars>>

\* What the calls made on the Heap directly leave alone.
fvars == <<lock, outer, pc, frame>>

Procs == 1..NumProcs

\* The word at address a; memory nothing has written yet reads as zero.
Read(m, a) == IF a \in DOMAIN m THEN m[a] ELSE NULL

\* Memory m after the word w is stored at address a.
Write(m, a, w) == [x \in DOMAIN m \cup {a} |-> IF x = a THEN w ELSE m[x]]

NoHeap ==
   [ some |-> FALSE, heap_base |-> NULL, heap_size |-> 0, free_lists |-> <<>>,
     min_block_size |-> 0, min_block_size_log2 |-> 0 ]

NoFrame ==
   [ op |-> "none", layout |-> Layout(0, 1), ptr |-> NULL, word |-> NULL,
     new_size |-> 0, new_ptr |-> NULL, new_word |-> NULL, heap_err |-> FALSE,
     len |-> NONE, outcome |-> "none" ]

\* PageFlags: Empty = 0, Taken = 1 << 0, Last = 1 << 1.
Empty == 0
Taken == 1
Last == 2

\* Indices of the Frame Table: 0 .. HEAP_SIZE / PAGE_SIZE - 1.
PageIndex == 0..(NumPages - 1)

NoLayoutCall == [ size |-> 0, align |-> 0, ok |-> FALSE, layout |-> Layout(0, 0), done |-> FALSE ]

NoPagingCall == [ op |-> "none", pages |-> 0, ptr |-> NONE, ret |-> NONE, outcome |-> "none" ]

\* An address as its page number (address >> 12) and its offset in the page.
Addr(page, off) == [ page |-> page, off |-> off ]

NoMmuCall ==
   [ op |-> "none", vaddr |-> Addr(0, 0), paddr |-> Addr(0, 0), bits |-> 0, level |-> 0,
     some |-> FALSE, ret |-> Addr(0, 0), outcome |-> "none", maps |-> 0,
     unmaps |-> 0 ]

NoCall == [ op |-> "none", layout |-> Layout(0, 1), ptr |-> NULL,
            order |-> NONE, outcome |-> "none" ]

(* --------------------------------------------------------- impl Heap (pure) *)

\* allocation_size as it would be if it looked at the free lists: raised to
\* the block size of the lowest order that holds a free block.
AllocationSizeIfFree(h, layout) ==
   LET align == layout.align
       size0 == layout.size
       held == {i \in 1..Len(h.free_lists) : h.free_lists[i] # NULL}
       lowest == IF held = {} THEN 0
                 ELSE (CHOOSE i \in held : \A k \in held : i <= k) - 1
   IN IF ~IsPo2(align) THEN NONE
      ELSE IF align > MIN_HEAP_ALIGN THEN NONE
      ELSE LET size1 == IF align > size0 THEN align ELSE size0
               size2 == Max(size1, h.min_block_size * (2 ^ lowest))
               size3 == NextPo2(size2)
           IN IF size3 > h.heap_size THEN NONE ELSE size3

\* allocation_size as it would be without `if align > size { size = align }`.
AllocationSizeNoAlign(h, layout) ==
   LET align == layout.align
       size0 == layout.size
   IN IF ~IsPo2(align) THEN NONE
      ELSE IF align > MIN_HEAP_ALIGN THEN NONE
      ELSE LET size2 == Max(size0, h.min_block_size)
               size3 == NextPo2(size2)
           IN IF size3 > h.heap_size THEN NONE ELSE size3

\* Heap::allocation_size: Some(size) or None.
AllocationSize(h, layout) ==
   LET align == layout.align
       size0 == layout.size
   IN IF ~IsPo2(align) THEN NONE
      ELSE IF align > MIN_HEAP_ALIGN THEN NONE
      ELSE LET size1 == IF align > size0 THEN align ELSE size0
               size2 == Max(size1, h.min_block_size)
               size3 == NextPo2(size2)
           IN IF size3 > h.heap_size THEN NONE ELSE size3

\* Heap::allocation_order: allocation_size(layout).map(|s| s.log2() - min_block_size_log2)
AllocationOrder(h, layout) ==
   LET s == AllocationSize(h, layout)
   IN IF s = NONE THEN NONE ELSE Log2(s) - h.min_block_size_log2

\* Heap::order_size: `1 >> (self.min_block_size_log2 as usize + order)`
OrderSize(h, order) == Shr(1, h.min_block_size_log2 + order)

\* Heap::free_list_pop: the head of free_lists[order], unlinked, or null.
FreeListPop(h, m, order) ==
   LET candidate == h.free_lists[order + 1]
   IN IF candidate # NULL
      THEN [ h |-> [h EXCEPT !.free_lists[order + 1] = Read(m, candidate)],
             m |-> m, ret |-> candidate ]
      ELSE [ h |-> h, m |-> m, ret |-> NULL ]

\* Heap::free_list_insert: write the header into the block, make it the head.
FreeListInsert(h, m, order, block) ==
   [ h |-> [h EXCEPT !.free_lists[order + 1] = block],
     m |-> Write(m, block, h.free_lists[order + 1]) ]

\* The loop of Heap::split_free_block.
RECURSIVE SplitLoop(_, _, _, _, _, _)
SplitLoop(h, m, block, size_to_split, order, order_needed) ==
   IF order > order_needed
   THEN LET size == Shr(size_to_split, 1)
            o == order - 1
            split == block + size
            r == FreeListInsert(h, m, o, split)
        IN SplitLoop(r.h, r.m, block, size, o, order_needed)
   ELSE [ h |-> h, m |-> m ]

\* Heap::split_free_block
SplitFreeBlock(h, m, block, order, order_needed) ==
   SplitLoop(h, m, block, OrderSize(h, order), order, order_needed)

\* The `for order in order_needed..self.free_lists.len()` loop of Heap::allocate.
RECURSIVE AllocateScan(_, _, _, _)
AllocateScan(h, m, order, order_needed) ==
   IF order >= Len(h.free_lists)
   THEN [ h |-> h, m |-> m, ret |-> NULL, popped |-> NONE ]
   ELSE LET p == FreeListPop(h, m, order)
        IN IF p.ret # NULL
           THEN LET s == IF order > order_needed
                         THEN SplitFreeBlock(p.h, p.m, p.ret, order, order_needed)
                         ELSE [ h |-> p.h, m |-> p.m ]
                IN [ h |-> s.h, m |-> s.m, ret |-> p.ret, popped |-> order ]
           ELSE AllocateScan(h, m, order + 1, order_needed)

\* Heap::allocate as it would be with `for order in 0..self.free_lists.len()`.
HeapAllocateFromZero(h, m, layout) ==
   LET order_needed == AllocationOrder(h, layout)
   IN IF order_needed # NONE
      THEN AllocateScan(h, m, 0, order_needed)
      ELSE [ h |-> h, m |-> m, ret |-> NULL, popped |-> NONE ]

\* Heap::allocate: ret is the block, or NULL for Err(AllocError).
HeapAllocate(h, m, layout) ==
   LET order_needed == AllocationOrder(h, layout)
   IN IF order_needed # NONE
      THEN AllocateScan(h, m, order_needed, order_needed)
      ELSE [ h |-> h, m |-> m, ret |-> NULL, popped |-> NONE ]

\* Heap::buddy: Some(address) or None.
Buddy(h, order, block) ==
   LET relative == block - h.heap_base
       size == OrderSize(h, order)
   IN IF size >= h.heap_size THEN NONE
      ELSE h.heap_base + Xor(relative, size)

\* The assertions of Heap::new.
HeapNewAsserts(heap_base, heap_size, n) ==
   /\ heap_base > 0
   /\ n > 0
   /\ heap_base % MIN_HEAP_ALIGN = 0
   /\ heap_size >= Shr(heap_size, n - 1)
   /\ Shr(heap_size, n - 1) >= SizeOfFreeBlock
   /\ IsPo2(heap_size)
   /\ Shr(heap_size, n - 1) * (2 ^ (n - 1)) = heap_size

\* Heap::new as if it registered the heap as a block of the lowest order.
HeapNewLowestOrder(m, heap_base, heap_size, n) ==
   LET min_block_size == Shr(heap_size, n - 1)
       result == [ some |-> TRUE, heap_base |-> heap_base, heap_size |-> heap_size,
                   free_lists |-> [i \in 1..n |-> NULL],
                   min_block_size |-> min_block_size,
                   min_block_size_log2 |-> Log2(min_block_size) ]
   IN FreeListInsert(result, m, 0, heap_base)

\* Heap::new on a free_lists array of n null pointers.
HeapNew(m, heap_base, heap_size, n) ==
   LET min_block_size == Shr(heap_size, n - 1)
       result == [ some |-> TRUE, heap_base |-> heap_base, heap_size |-> heap_size,
                   free_lists |-> [i \in 1..n |-> NULL],
                   min_block_size |-> min_block_size,
                   min_block_size_log2 |-> Log2(min_block_size) ]
       order == AllocationOrder(result, Layout(heap_size, 1))
   IN FreeListInsert(result, m, order, heap_base)

\* The walk of Heap::free_list_remove past the head.  From the second
\* iteration on `checking` points at the temporary that held a copy of the
\* previous node's `next` (`&mut ((*(*checking)).next())`), so a match there
\* overwrites the temporary and unlinks nothing.
RECURSIVE RemoveWalk(_, _, _, _)
RemoveWalk(m, cur, block, fuel) ==
   IF cur = NULL THEN [ found |-> FALSE, hang |-> FALSE ]
   ELSE IF cur = block THEN [ found |-> TRUE, hang |-> FALSE ]
   ELSE IF fuel = 0 THEN [ found |-> FALSE, hang |-> TRUE ]
   ELSE RemoveWalk(m, Read(m, cur), block, fuel - 1)

\* Heap::free_list_remove.  The temporary is dead when the loop reads it
\* again; `slot` is what that read yields: "intact" (the copy is still
\* there) or "undef" (it reads as null).
FreeListRemove(h, m, order, block, slot) ==
   LET head == h.free_lists[order + 1]
   IN IF head = NULL THEN [ h |-> h, found |-> FALSE, hang |-> FALSE ]
      ELSE IF head = block
      THEN [ h |-> [h EXCEPT !.free_lists[order + 1] = Read(m, head)],
             found |-> TRUE, hang |-> FALSE ]
      ELSE IF slot = "undef" THEN [ h |-> h, found |-> FALSE, hang |-> FALSE ]
      ELSE LET w == RemoveWalk(m, Read(m, head), block, Cardinality(Addrs))
           IN [ h |-> h, found |-> w.found, hang |-> w.hang ]

\* The coalescing loop of Heap::deallocate: merge with the buddy while it is
\* on the free list of the same order, up to the top order.
RECURSIVE DeallocateLoop(_, _, _, _, _)
DeallocateLoop(h, m, block, order, slot) ==
   IF order >= Len(h.free_lists) - 1
   THEN FreeListInsert(h, m, order, block) @@ [ hang |-> FALSE ]
   ELSE LET buddy == Buddy(h, order, block)
            r == FreeListRemove(h, m, order, buddy, slot)
        IN IF buddy # NONE /\ r.hang
           THEN [ h |-> h, m |-> m, hang |-> TRUE ]
           ELSE IF buddy # NONE /\ r.found
           THEN DeallocateLoop(r.h, m, Min(block, buddy), order + 1, slot)
           ELSE FreeListInsert(h, m, order, block) @@ [ hang |-> FALSE ]

\* Heap::deallocate(ptr, layout), for a layout the heap accepts.
HeapDeallocate(h, m, ptr, layout, slot) ==
   DeallocateLoop(h, m, ptr, AllocationOrder(h, layout), slot)

(* ------------------------------------------------------------ direct calls *)

Init ==
   /\ heap = NoHeap
   /\ mem = [a \in {} |-> NULL]
   /\ live = EmptyBag
   /\ last = NoCall
   /\ halted = FALSE
   /\ run1k = NONE
   /\ lock = 0
   /\ outer = 0
   /\ pc = [p \in Procs |-> "idle"]
   /\ frame = [p \in Procs |-> NoFrame]
   /\ lcall = NoLayoutCall
   /\ build = "debug"
   /\ ftab = [i \in PageIndex |-> Empty]
   /\ runs = {}
   /\ pcall = NoPagingCall
   /\ pmem = [i \in PageIndex |-> "stale"]
   /\ ptes = [x \in {} |-> 0]
   /\ mcall = NoMmuCall
   /\ freed = EmptyBag

Block(ptr, layout, order) == [ ptr |-> ptr, layout |-> layout, order |-> order ]

\* heap::init: *HEAP.lock() = Some(Heap::new(..)), once, at start-up.
HeapInit(cfg) ==
   /\ ~halted
   /\ ~heap.some
   /\ IF HeapNewAsserts(cfg[1], cfg[2], cfg[3])
      THEN LET r == HeapNew(mem, cfg[1], cfg[2], cfg[3])
           IN /\ heap' = r.h
              /\ mem' = r.m
              /\ halted' = FALSE
              /\ last' = [NoCall EXCEPT !.op = "init", !.outcome = "ok"]
              /\ run1k' = 0
      ELSE /\ halted' = TRUE
           /\ last' = [NoCall EXCEPT !.op = "init", !.outcome = "panic"]
           /\ UNCHANGED <<heap, mem, run1k>>
   /\ UNCHANGED <<live, fvars>>
   /\ UNCHANGED xvars

\* Heap::allocate(layout) called on the initialised heap.
Allocate(layout) ==
   /\ ~halted
   /\ heap.some
   /\ BagCardinality(live) < MaxLive
   /\ LET r == HeapAllocate(heap, mem, layout)
          order == AllocationOrder(heap, layout)
      IN /\ heap' = r.h
         /\ mem' = r.m
         /\ live' = IF r.ret # NULL
                    THEN live (+) SetToBag({Block(r.ret, layout, order)})
                    ELSE live
         /\ last' = [ op |-> "allocate", layout |-> layout, ptr |-> r.ret,
                      order |-> order,
                      outcome |-> IF r.ret # NULL THEN "ok" ELSE "err" ]
   /\ run1k' = IF run1k # NONE /\ layout = OneKiB THEN run1k + 1 ELSE NONE
   /\ UNCHANGED <<halted, fvars>>
   /\ UNCHANGED xvars

\* Heap::deallocate(ptr, layout) with the pointer and layout of a live block.
Deallocate(b) ==
   /\ ~halted
   /\ heap.some
   /\ BagIn(b, live)
   /\ \E slot \in {"intact", "undef"} :
         LET r == HeapDeallocate(heap, mem, b.ptr, b.layout, slot)
         IN /\ heap' = r.h
            /\ mem' = r.m
            /\ halted' = r.hang
            /\ last' = [ op |-> "deallocate", layout |-> b.layout, ptr |-> b.ptr,
                         order |-> AllocationOrder(heap, b.layout),
                         outcome |-> IF r.hang THEN "hang" ELSE "ok" ]
   /\ live' = live (-) SetToBag({b})
   /\ run1k' = NONE
   /\ UNCHANGED fvars
   /\ UNCHANGED xvars

\* The owner of a live block stores a word at its start.
CallerWrite(b, w) ==
   /\ ~halted
   /\ BagIn(b, live)
   /\ b.layout.size >= SizeOfFreeBlock
   /\ mem' = Write(mem, b.ptr, w)
   /\ last' = [NoCall EXCEPT !.op = "write", !.ptr = b.ptr, !.outcome = "ok"]
   /\ run1k' = NONE
   /\ UNCHANGED <<heap, live, halted, fvars>>
   /\ UNCHANGED xvars

Next ==
   \/ \E cfg \in HeapConfigs : HeapInit(cfg)
   \/ \E layout \in CallLayouts : Allocate(layout)
   \/ \E b \in BagToSet(live) : Deallocate(b)
   \/ \E b \in BagToSet(live), w \in CallerWords : CallerWrite(b, w)

Spec == Init /\ [][Next]_vars

\* Heap::free_list_remove on its own, on free lists of up to three blocks.
\* The blocks a free list of order 0 can hold in the 8 KiB heap.
RemoveBlocks == {HeapBase + k * 2048 : k \in 0..3}

RemoveLists ==
   {s \in UNION {[1..n -> RemoveBlocks] : n \in 0..3} :
       \A i, j \in DOMAIN s : i # j => s[i] # s[j]}

\* The headers of the blocks of list s: each `next` is the block after it.
Linked(s) ==
   [a \in {s[i] : i \in DOMAIN s} |->
       LET i == CHOOSE k \in DOMAIN s : s[k] = a
       IN IF i = Len(s) THEN NULL ELSE s[i + 1]]

InitRemove ==
   /\ \E s \in RemoveLists :
         /\ heap = [ some |-> TRUE, heap_base |-> HeapBase, heap_size |-> 8192,
                     free_lists |-> <<IF s = <<>> THEN NULL ELSE s[1], NULL, NULL>>,
                     min_block_size |-> 2048, min_block_size_log2 |-> 11 ]
         /\ mem = Linked(s)
   /\ live = EmptyBag
   /\ last = NoCall
   /\ halted = FALSE
   /\ run1k = NONE
   /\ lock = 0
   /\ outer = 0
   /\ pc = [p \in Procs |-> "idle"]
   /\ frame = [p \in Procs |-> NoFrame]
   /\ lcall = NoLayoutCall
   /\ build = "debug"
   /\ ftab = [i \in PageIndex |-> Empty]
   /\ runs = {}
   /\ pcall = NoPagingCall
   /\ pmem = [i \in PageIndex |-> "stale"]
   /\ ptes = [x \in {} |-> 0]
   /\ mcall = NoMmuCall
   /\ freed = EmptyBag

\* free_list_remove(order, block)
FreeListRemoveCall(order, block) ==
   /\ ~halted
   /\ \E slot \in {"intact", "undef"} :
         LET r == FreeListRemove(heap, mem, order, block, slot)
         IN /\ heap' = r.h
            /\ halted' = r.hang
            /\ last' = [NoCall EXCEPT !.op = "remove", !.ptr = block, !.order = order,
                           !.outcome = IF r.hang THEN "hang"
                                       ELSE IF r.found THEN "true" ELSE "false"]
   /\ UNCHANGED <<mem, live, run1k, fvars>>
   /\ UNCHANGED xvars

NextRemove == \E order \in 0..2, block \in RemoveBlocks : FreeListRemoveCall(order, block)

SpecRemove == InitRemove /\ [][NextRemove]_vars

(* ------------------------------------------------------------- the facade *)

\* Layouts callers pass to Global::allocate, and sizes they reallocate to.
FacadeLayouts == {Layout(0, 1), Layout(1024, 1), Layout(8192, 1)}
FacadeConfigs == { <<HeapBase, 8192, 3>> }
NewSizes == {1024, 8192}

\* __rustc_reallocate, Allocator::grow and Allocator::shrink: allocate the
\* new block, copy, release the old one.
Moves == {"realloc", "grow", "shrink"}

\* spin::Mutex::lock as if it did not wait for the holder to release.
CanLockAlways(l) == TRUE

\* HEAP.lock() / Locked::lock(): spin::Mutex::lock returns once nobody holds l.
CanLock(l) == l = 0

\* Calls that have been entered and will add a block to the caller's blocks.
Pending == Cardinality({p \in Procs : /\ pc[p] \in {"a_lock", "a_held"}
                                      /\ frame[p].op \in {"g_alloc", "l_alloc"}})

\* An `expect` on None as if it returned to the caller with a null pointer
\* instead of panicking.
ReturnsNull(p, f, unwind) ==
   /\ pc' = [pc EXCEPT ![p] = "done"]
   /\ frame' = [frame EXCEPT ![p] = [f EXCEPT !.outcome = "ok"]]
   /\ lock' = IF lock = p THEN 0 ELSE lock
   /\ outer' = IF outer = p THEN 0 ELSE outer
   /\ halted' = FALSE

\* A panic of caller p (an `expect`/`unwrap` on None or Err).  When the
\* panic unwinds, the MutexGuards p holds are dropped; otherwise the program
\* stops where it is.
Panics(p, f, unwind) ==
   /\ pc' = [pc EXCEPT ![p] = "panicked"]
   /\ frame' = [frame EXCEPT ![p] = [f EXCEPT !.outcome = "panic"]]
   /\ lock' = IF unwind /\ lock = p THEN 0 ELSE lock
   /\ outer' = IF unwind /\ outer = p THEN 0 ELSE outer
   /\ halted' = ~unwind

\* The layout a call passes to __rustc_allocate.
AllocLayout(f) ==
   IF f.op \in Moves THEN Layout(f.new_size, f.layout.align) ELSE f.layout

\* The bytes a move copies from the old block to the new one.
CopyLen(f) ==
   CASE f.op = "realloc" -> Min(f.new_size, f.layout.size)
     [] f.op = "grow" -> f.layout.size
     [] OTHER -> f.new_size

\* Layout::dangling as if it gave the null pointer.
dangling_null(layout) == NULL

\* Layout::dangling(): `NonNull::new_unchecked(self.align() as *mut u8)`.
dangling(layout) == layout.align

\* Global::allocate(layout) with layout.size() == 0: Ok(layout.dangling(), 0).
AllocateZeroSized(p, layout) ==
   /\ ~halted /\ pc[p] = "idle"
   /\ layout.size = 0
   /\ BagCardinality(live) + Pending < MaxHeld
   /\ live' = live (+) SetToBag({Block(dangling(layout), layout, NONE)})
   /\ frame' = [frame EXCEPT ![p] = [NoFrame EXCEPT !.op = "g_alloc",
                   !.layout = layout, !.new_ptr = dangling(layout), !.len = 0,
                   !.outcome = "ok"]]
   /\ pc' = [pc EXCEPT ![p] = "done"]
   /\ UNCHANGED <<heap, mem, last, halted, run1k, lock, outer>>
   /\ UNCHANGED xvars

\* Global::allocate(layout), layout.size() != 0: alloc_impl -> allocate ->
\* __rustc_allocate, up to HEAP.lock().
StartAllocate(p, layout) ==
   /\ ~halted /\ pc[p] = "idle"
   /\ layout.size # 0
   /\ BagCardinality(live) + Pending < MaxHeld
   /\ CanLock(lock)
   /\ lock' = p
   /\ pc' = [pc EXCEPT ![p] = "a_held"]
   /\ frame' = [frame EXCEPT ![p] = [NoFrame EXCEPT !.op = "g_alloc", !.layout = layout]]
   /\ UNCHANGED <<heap, mem, live, last, halted, run1k, outer>>
   /\ UNCHANGED xvars

\* Locked<Global>::allocate(layout): self.lock(), then Global::allocate.
StartLockedAllocate(p, layout) ==
   /\ ~halted /\ pc[p] = "idle"
   /\ layout.size # 0
   /\ BagCardinality(live) + Pending < MaxHeld
   /\ CanLock(outer)
   /\ outer' = p
   /\ pc' = [pc EXCEPT ![p] = "a_lock"]
   /\ frame' = [frame EXCEPT ![p] = [NoFrame EXCEPT !.op = "l_alloc", !.layout = layout]]
   /\ UNCHANGED <<heap, mem, live, last, halted, run1k, lock>>
   /\ UNCHANGED xvars

\* Global::deallocate(ptr, layout) with layout.size() == 0: nothing.
DeallocateZeroSized(p, b) ==
   /\ ~halted /\ pc[p] = "idle"
   /\ BagIn(b, live) /\ b.layout.size = 0
   /\ live' = live (-) SetToBag({b})
   /\ frame' = [frame EXCEPT ![p] = [NoFrame EXCEPT !.op = "g_dealloc",
                   !.layout = b.layout, !.ptr = b.ptr, !.outcome = "ok"]]
   /\ pc' = [pc EXCEPT ![p] = "done"]
   /\ UNCHANGED <<heap, mem, last, halted, run1k, lock, outer>>
   /\ UNCHANGED xvars

\* Global::deallocate(ptr, layout), layout.size() != 0: __rustc_deallocate up
\* to HEAP.lock().
StartDeallocate(p, b) ==
   /\ ~halted /\ pc[p] = "idle"
   /\ BagIn(b, live) /\ b.layout.size # 0
   /\ CanLock(lock)
   /\ lock' = p
   /\ pc' = [pc EXCEPT ![p] = "d_held"]
   /\ live' = live (-) SetToBag({b})
   /\ frame' = [frame EXCEPT ![p] = [NoFrame EXCEPT !.op = "g_dealloc",
                   !.layout = b.layout, !.ptr = b.ptr]]
   /\ UNCHANGED <<heap, mem, last, halted, run1k, outer>>
   /\ UNCHANGED xvars

\* Locked<Global>::deallocate(ptr, layout): self.lock(), then Global::deallocate.
StartLockedDeallocate(p, b) ==
   /\ ~halted /\ pc[p] = "idle"
   /\ BagIn(b, live) /\ b.layout.size # 0
   /\ CanLock(outer)
   /\ outer' = p
   /\ pc' = [pc EXCEPT ![p] = "d_lock"]
   /\ live' = live (-) SetToBag({b})
   /\ frame' = [frame EXCEPT ![p] = [NoFrame EXCEPT !.op = "l_dealloc",
                   !.layout = b.layout, !.ptr = b.ptr]]
   /\ UNCHANGED <<heap, mem, last, halted, run1k, lock>>
   /\ UNCHANGED xvars

\* __rustc_reallocate(ptr, old_size, align, new_size), Global.grow and
\* Global.shrink (same alignment), for a live block of the caller, up to the
\* HEAP.lock() of the allocation.
StartMove(p, op, b, new_size) ==
   /\ ~halted /\ pc[p] = "idle"
   /\ BagIn(b, live) /\ b.layout.size # 0
   /\ op = "grow" => new_size >= b.layout.size
   /\ op = "shrink" => new_size <= b.layout.size
   /\ CanLock(lock)
   /\ lock' = p
   /\ pc' = [pc EXCEPT ![p] = "a_held"]
   /\ live' = live (-) SetToBag({b})
   /\ frame' = [frame EXCEPT ![p] = [NoFrame EXCEPT !.op = op, !.layout = b.layout,
                   !.ptr = b.ptr, !.word = Read(mem, b.ptr), !.new_size = new_size]]
   /\ UNCHANGED <<heap, mem, last, halted, run1k, outer>>
   /\ UNCHANGED xvars

\* HEAP.lock() of a call that holds the Locked mutex, and of the
\* __rustc_deallocate that ends a move.
LockHeap(p) ==
   /\ ~halted /\ pc[p] \in {"a_lock", "d_lock"}
   /\ CanLock(lock)
   /\ lock' = p
   /\ pc' = [pc EXCEPT ![p] = IF pc[p] = "a_lock" THEN "a_held" ELSE "d_held"]
   /\ UNCHANGED <<heap, mem, live, last, halted, run1k, outer, frame>>
   /\ UNCHANGED xvars

\* __rustc_allocate under the lock: .as_mut().expect(..).allocate(layout)
\* .expect("allocation failed"), the guard dropped at the end of the statement.
AllocateRun(p) ==
   /\ ~halted /\ pc[p] = "a_held"
   /\ LET f == frame[p]
          r == HeapAllocate(heap, mem, AllocLayout(f))
      IN IF ~heap.some
         THEN /\ \E unwind \in BOOLEAN : Panics(p, f, unwind)
              /\ UNCHANGED <<heap, mem, live>>
         ELSE IF r.ret = NULL
         THEN /\ \E unwind \in BOOLEAN : Panics(p, [f EXCEPT !.heap_err = TRUE], unwind)
              /\ UNCHANGED <<heap, mem, live>>
         ELSE /\ heap' = r.h
              /\ mem' = r.m
              /\ lock' = 0
              /\ halted' = FALSE
              /\ IF f.op \in Moves
                 THEN /\ pc' = [pc EXCEPT ![p] = "copy"]
                      /\ frame' = [frame EXCEPT ![p] = [f EXCEPT !.new_ptr = r.ret]]
                      /\ UNCHANGED <<live, outer>>
                 ELSE /\ pc' = [pc EXCEPT ![p] = "done"]
                      /\ frame' = [frame EXCEPT ![p] =
                                      [f EXCEPT !.new_ptr = r.ret, !.len = f.layout.size,
                                                !.outcome = "ok"]]
                      /\ live' = live (+) SetToBag({Block(r.ret, f.layout,
                                                    AllocationOrder(heap, f.layout))})
                      /\ outer' = IF outer = p THEN 0 ELSE outer
   /\ UNCHANGED <<last, run1k>>
   /\ UNCHANGED xvars

\* The copy of a move, outside any lock: ptr::copy / ptr::copy_nonoverlapping.
Copy(p) ==
   /\ ~halted /\ pc[p] = "copy"
   /\ LET f == frame[p]
      IN mem' = IF CopyLen(f) >= SizeOfFreeBlock
                THEN Write(mem, f.new_ptr, Read(mem, f.ptr))
                ELSE mem
   /\ pc' = [pc EXCEPT ![p] = "d_lock"]
   /\ UNCHANGED <<heap, live, last, halted, run1k, lock, outer, frame>>
   /\ UNCHANGED xvars

\* __rustc_deallocate under the lock; a move returns the new block after it.
DeallocateRun(p) ==
   /\ ~halted /\ pc[p] = "d_held"
   /\ LET f == frame[p]
      IN IF ~heap.some
         THEN /\ \E unwind \in BOOLEAN : Panics(p, f, unwind)
              /\ UNCHANGED <<heap, mem, live>>
         ELSE \E slot \in {"intact", "undef"} :
                 LET r == HeapDeallocate(heap, mem, f.ptr, f.layout, slot)
                 IN IF r.hang
                    THEN /\ halted' = TRUE
                         /\ UNCHANGED <<heap, mem, live, lock, outer, pc, frame>>
                    ELSE /\ heap' = r.h
                         /\ mem' = r.m
                         /\ lock' = 0
                         /\ outer' = IF outer = p THEN 0 ELSE outer
                         /\ halted' = FALSE
                         /\ pc' = [pc EXCEPT ![p] = "done"]
                         /\ frame' = [frame EXCEPT ![p] =
                               [f EXCEPT !.outcome = "ok",
                                         !.new_word = Read(r.m, f.new_ptr)]]
                         /\ live' = IF f.op \in Moves
                                    THEN live (+) SetToBag({Block(f.new_ptr, AllocLayout(f),
                                                   AllocationOrder(heap, AllocLayout(f)))})
                                    ELSE live
   /\ UNCHANGED <<last, run1k>>
   /\ UNCHANGED xvars

\* The call returns to its caller, which goes on to its next call.
Return(p) ==
   /\ ~halted /\ pc[p] = "done"
   /\ pc' = [pc EXCEPT ![p] = "idle"]
   /\ frame' = [frame EXCEPT ![p] = NoFrame]
   /\ UNCHANGED <<heap, mem, live, last, halted, run1k, lock, outer>>
   /\ UNCHANGED xvars

NextFacade ==
   \/ \E cfg \in FacadeConfigs : CanLock(lock) /\ HeapInit(cfg)
   \/ \E p \in Procs, layout \in FacadeLayouts : AllocateZeroSized(p, layout)
   \/ \E p \in Procs, layout \in FacadeLayouts : StartAllocate(p, layout)
   \/ \E p \in Procs, layout \in FacadeLayouts : StartLockedAllocate(p, layout)
   \/ \E p \in Procs : \E b \in BagToSet(live) : DeallocateZeroSized(p, b)
   \/ \E p \in Procs : \E b \in BagToSet(live) : StartDeallocate(p, b)
   \/ \E p \in Procs : \E b \in BagToSet(live) : StartLockedDeallocate(p, b)
   \/ \E p \in Procs, op \in Moves, n \in NewSizes :
         \E b \in BagToSet(live) : StartMove(p, op, b, n)
   \/ \E p \in Procs : LockHeap(p)
   \/ \E p \in Procs : AllocateRun(p)
   \/ \E p \in Procs : Copy(p)
   \/ \E p \in Procs : DeallocateRun(p)
   \/ \E p \in Procs : Return(p)
   \/ \E b \in BagToSet(live), w \in CallerWords : CallerWrite(b, w)

SpecFacade == Init /\ [][NextFacade]_vars

\* Global::allocate and Global::deallocate alone, with zero-sized layouts of
\* several alignments next to layouts the heap serves.
ZeroSizedLayouts == {Layout(0, 1), Layout(0, 8), Layout(0, 4096), Layout(1024, 1)}

NextGlobal ==
   \/ \E cfg \in FacadeConfigs : CanLock(lock) /\ HeapInit(cfg)
   \/ \E p \in Procs, layout \in ZeroSizedLayouts : AllocateZeroSized(p, layout)
   \/ \E p \in Procs, layout \in ZeroSizedLayouts : StartAllocate(p, layout)
   \/ \E p \in Procs : \E b \in BagToSet(live) : DeallocateZeroSized(p, b)
   \/ \E p \in Procs : \E b \in BagToSet(live) : StartDeallocate(p, b)
   \/ \E p \in Procs : AllocateRun(p)
   \/ \E p \in Procs : DeallocateRun(p)
   \/ \E p \in Procs : Return(p)

SpecGlobal == Init /\ [][NextGlobal]_vars

\* Pointers a caller that holds no block passes to __rustc_deallocate.
RawPointers == {NULL, HeapBase, HeapBase + 2048}
InitOrderLayouts == {Layout(1024, 1), Layout(8192, 1)}

\* __rustc_deallocate(pointer, old_size, align) called before heap::init has
\* run, with whatever pointer the caller has: NonNull::new(pointer)
\* .expect("pointer is null"), then HEAP.lock().
DeallocateBeforeInit(p, pointer, layout) ==
   /\ ~halted /\ pc[p] = "idle"
   /\ ~heap.some
   /\ LET f == [NoFrame EXCEPT !.op = "rustc_dealloc", !.layout = layout, !.ptr = pointer]
      IN IF pointer = NULL
         THEN \E unwind \in BOOLEAN : Panics(p, f, unwind)
         ELSE /\ CanLock(lock)
              /\ lock' = p
              /\ pc' = [pc EXCEPT ![p] = "d_held"]
              /\ frame' = [frame EXCEPT ![p] = f]
              /\ UNCHANGED <<halted, outer>>
   /\ UNCHANGED <<heap, mem, live, last, run1k>>
   /\ UNCHANGED xvars

\* Start-up: callers use the facade while heap::init may not have run yet.
NextInitOrder ==
   \/ \E cfg \in FacadeConfigs : CanLock(lock) /\ HeapInit(cfg)
   \/ \E p \in Procs, layout \in InitOrderLayouts : StartAllocate(p, layout)
   \/ \E p \in Procs, pointer \in RawPointers, layout \in InitOrderLayouts :
         DeallocateBeforeInit(p, pointer, layout)
   \/ \E p \in Procs : \E b \in BagToSet(live) : StartDeallocate(p, b)
   \/ \E p \in Procs : AllocateRun(p)
   \/ \E p \in Procs : DeallocateRun(p)
   \/ \E p \in Procs : Return(p)

SpecInitOrder == Init /\ [][NextInitOrder]_vars

(* ----------------------------------------------------------------- Layout *)

\* usize::MAX, at the word width of the model.
USIZE_MAX == 2 ^ UsizeBits - 1

\* The sizes and alignments passed to Layout::from_size_align.
LayoutSizes ==
   {0, 1, 2, 3, 1024, 4096, USIZE_MAX - 4096, USIZE_MAX - 4095, USIZE_MAX - 2,
    USIZE_MAX - 1, USIZE_MAX}
LayoutAligns == {0, 1, 2, 3, 4, 6, 8, 4096, 2 ^ (UsizeBits - 1), USIZE_MAX}

\* Layout::from_size_align(size, align): Err(LayoutError) unless align is a
\* power of two; the second test is `size > usize::MAX`.
from_size_align(size, align) ==
   IF ~IsPo2(align) THEN [ ok |-> FALSE, layout |-> Layout(0, 0) ]
   ELSE IF size > USIZE_MAX THEN [ ok |-> FALSE, layout |-> Layout(0, 0) ]
   ELSE [ ok |-> TRUE, layout |-> Layout(size, align) ]

\* A caller constructs a Layout.
FromSizeAlign(size, align) ==
   /\ lcall' = [ size |-> size, align |-> align, done |-> TRUE ]
                  @@ from_size_align(size, align)
   /\ UNCHANGED <<avars, build, ftab, runs, pcall, pmem, mvars>>

NextLayout == \E size \in LayoutSizes, align \in LayoutAligns : FromSizeAlign(size, align)

SpecLayout == Init /\ [][NextLayout]_vars

(* ----------------------------------------------------- page-frame allocator *)

PAGE_SIZE == 4096

\* `static mut ALLOC_START: usize = 0;` -- nothing in the source assigns it.
ALLOC_START == 0

\* `static HEAP_START: usize`, the address of the Frame Table: a linker symbol.
HEAP_START == 64 * PAGE_SIZE

\* Page counts callers ask for.
PageCounts == {1, 2, 3, NumPages, NumPages + 1}

\* What the memory at HEAP_START holds before the first call: nothing in the
\* source clears the Frame Table, so each flags byte is whatever was there.
StartFlags == {Empty, Taken, Last, Taken + Last}

\* Page::is_taken, Page::is_last, Page::is_free on a flags byte.
is_taken(f) == f % 2 = 1
is_last(f) == (f \div 2) % 2 = 1
is_free(f) == ~is_taken(f)

\* Page::set_flag: self.flags |= flag.value(), for a one-bit flag.
set_flag(f, flag) == IF (f \div flag) % 2 = 1 THEN f ELSE f + flag

\* The inner loop of paging::allocate: no page of i .. i + pages - 1 is taken.
RECURSIVE RunIsFree(_, _, _)
RunIsFree(t, j, end) ==
   IF j >= end THEN TRUE
   ELSE IF is_taken(t[j]) THEN FALSE
   ELSE RunIsFree(t, j + 1, end)

\* The outer loop, `for i in 0..num_pages - pages`, from i on: the first i
\* at which `found` is true, or NONE when the loop runs out.
RECURSIVE Scan(_, _, _)
Scan(t, pages, i) ==
   IF i >= NumPages - pages THEN NONE
   ELSE IF is_free(t[i]) /\ RunIsFree(t, i, i + pages) THEN i
   ELSE Scan(t, pages, i + 1)

\* The marking paging::allocate does once `found`: `for k in i..i - pages - 1`
\* is an empty range when i - pages - 1 does not underflow, then the page
\* i + pages - 1 gets Taken and Last.
Mark(t, pages, i) ==
   [t EXCEPT ![i + pages - 1] = set_flag(set_flag(t[i + pages - 1], Taken), Last)]

\* What `for k in i..i - pages - 1` does to the table when the subtraction
\* wraps (no overflow checks): every page from i on gets Taken, and the loop
\* runs on past the table.
MarkWrapped(t, i) ==
   [k \in PageIndex |-> IF k >= i THEN set_flag(t[k], Taken) ELSE t[k]]

\* paging::allocate(pages) on table t in build b: the ways it can end.
\*   "ok"    returned ALLOC_START + PAGE_SIZE * i
\*   "null"  returned null
\*   "panic" a debug assertion or an overflow check failed
\*   "ub"    the call read or wrote past the Frame Table
allocate(b, t, pages) ==
   IF pages > NumPages
   THEN \* num_pages - pages underflows
        IF b = "debug"
        THEN {[ ftab |-> t, ret |-> NULL, outcome |-> "panic" ]}
        ELSE {[ ftab |-> t, ret |-> NULL, outcome |-> "ub" ]}
   ELSE LET i == Scan(t, pages, 0)
        IN IF i = NONE
           THEN {[ ftab |-> t, ret |-> NULL, outcome |-> "null" ]}
           ELSE IF i - pages - 1 < 0
           THEN IF b = "debug"
                THEN {[ ftab |-> t, ret |-> NULL, outcome |-> "panic" ]}
                ELSE {[ ftab |-> u, ret |-> NULL, outcome |-> "ub" ] :
                         u \in {t, MarkWrapped(t, i)}}
           ELSE {[ ftab |-> Mark(t, pages, i),
                   ret |-> ALLOC_START + PAGE_SIZE * i, outcome |-> "ok" ]}

\* The walk of paging::deallocate from page i:
\* `while (*page).is_taken() && !(*page).is_last() { clear; page = page.add(1) }`
\* then, without debug assertions, `(*page).clear()`.  Reading the entry at
\* index num_pages is a read past the table.
RECURSIVE Walk(_, _)
Walk(t, i) ==
   IF i >= NumPages THEN [ ftab |-> t, outcome |-> "ub" ]
   ELSE IF is_taken(t[i]) /\ ~is_last(t[i])
   THEN Walk([t EXCEPT ![i] = Empty], i + 1)
   ELSE [ ftab |-> [t EXCEPT ![i] = Empty], outcome |-> "ok" ]

\* paging::deallocate as it would be with no debug_assert! at all.
deallocate_unchecked(b, t, pointer) == Walk(t, (pointer - ALLOC_START) \div PAGE_SIZE)

\* paging::deallocate(pointer).  With debug assertions,
\* `address >= HEAP_START && address < ALLOC_START` is checked first.
deallocate(b, t, pointer) ==
   LET i == (pointer - ALLOC_START) \div PAGE_SIZE
   IN IF b = "debug"
      THEN IF pointer = NULL
              \/ ~(HEAP_START + i >= HEAP_START /\ HEAP_START + i < ALLOC_START)
           THEN [ ftab |-> t, outcome |-> "panic" ]
           ELSE IF ~is_taken(t[i]) THEN [ ftab |-> t, outcome |-> "panic" ]
           ELSE Walk(t, i)
      ELSE Walk(t, i)

Run(first, n) == [ first |-> first, n |-> n ]
RunPages(r) == r.first .. (r.first + r.n - 1)

\* The program has stopped in paging code.
PagingStopped == pcall.outcome \in {"panic", "ub"}

\* The program starts: the build is fixed and the Frame Table holds what the
\* memory held.
InitPaging ==
   /\ heap = NoHeap
   /\ mem = [a \in {} |-> NULL]
   /\ live = EmptyBag
   /\ last = NoCall
   /\ halted = FALSE
   /\ run1k = NONE
   /\ lock = 0
   /\ outer = 0
   /\ pc = [p \in Procs |-> "idle"]
   /\ frame = [p \in Procs |-> NoFrame]
   /\ lcall = NoLayoutCall
   /\ build \in {"debug", "release"}
   /\ ftab \in [PageIndex -> StartFlags]
   /\ runs = {}
   /\ pcall = NoPagingCall
   /\ pmem = [i \in PageIndex |-> "stale"]
   /\ ptes = [x \in {} |-> 0]
   /\ mcall = NoMmuCall
   /\ freed = EmptyBag

\* paging::allocate(pages)
PagingAllocate(pages) ==
   /\ ~PagingStopped
   /\ \E r \in allocate(build, ftab, pages) :
         /\ ftab' = r.ftab
         /\ pcall' = [ op |-> "allocate", pages |-> pages, ptr |-> NONE,
                       ret |-> r.ret, outcome |-> r.outcome ]
         /\ runs' = IF r.outcome = "ok"
                    THEN runs \cup {Run(r.ret \div PAGE_SIZE, pages)}
                    ELSE runs
   /\ UNCHANGED <<avars, lcall, build, pmem, mvars>>

\* paging::allocate_zeroed(pages): allocate, then (PAGE_SIZE * pages) / 8
\* doubleword stores of 0 from the returned pointer on.
PagingAllocateZeroed(pages) ==
   /\ ~PagingStopped
   /\ \E r \in allocate(build, ftab, pages) :
         /\ ftab' = r.ftab
         /\ pcall' = [ op |-> "allocate_zeroed", pages |-> pages, ptr |-> NONE,
                       ret |-> r.ret, outcome |-> r.outcome ]
         /\ runs' = IF r.outcome = "ok"
                    THEN runs \cup {Run(r.ret \div PAGE_SIZE, pages)}
                    ELSE runs
         /\ pmem' = IF r.outcome = "ok"
                    THEN [k \in PageIndex |->
                            IF k \in RunPages(Run(r.ret \div PAGE_SIZE, pages))
                            THEN "zero" ELSE pmem[k]]
                    ELSE pmem
   /\ UNCHANGED <<avars, lcall, build, mvars>>

\* paging::deallocate(pointer) with the pointer of a run the caller owns.
PagingDeallocate(run) ==
   /\ ~PagingStopped
   /\ run \in runs
   /\ LET pointer == ALLOC_START + PAGE_SIZE * run.first
          r == deallocate(build, ftab, pointer)
      IN /\ ftab' = r.ftab
         /\ pcall' = [ op |-> "deallocate", pages |-> run.n, ptr |-> pointer,
                       ret |-> NONE, outcome |-> r.outcome ]
   /\ runs' = runs \ {run}
   /\ UNCHANGED <<avars, lcall, build, pmem, mvars>>

NextPaging ==
   \/ \E pages \in PageCounts : PagingAllocate(pages)
   \/ \E pages \in PageCounts : PagingAllocateZeroed(pages)
   \/ \E run \in runs : PagingDeallocate(run)

SpecPaging == InitPaging /\ [][NextPaging]_vars

\* paging::deallocate(pointer) with the address of any page: a run the
\* caller owns, a run already freed, or a page never allocated.
PagingDeallocateAny(i) ==
   /\ ~PagingStopped
   /\ LET pointer == ALLOC_START + PAGE_SIZE * i
          r == deallocate(build, ftab, pointer)
      IN /\ ftab' = r.ftab
         /\ pcall' = [ op |-> "deallocate", pages |-> 0, ptr |-> pointer,
                       ret |-> NONE, outcome |-> r.outcome ]
   /\ runs' = {r \in runs : r.first # i}
   /\ UNCHANGED <<avars, lcall, build, pmem, mvars>>

NextPagingAny ==
   \/ \E pages \in PageCounts : PagingAllocate(pages)
   \/ \E pages \in PageCounts : PagingAllocateZeroed(pages)
   \/ \E i \in PageIndex : PagingDeallocateAny(i)

SpecPagingAny == InitPaging /\ [][NextPagingAny]_vars

\* Sizes of the layouts callers pass to the page-backed Global.
GlobalSizes == {0, 1, 2, 3, PAGE_SIZE}

\* Global::allocate(layout) of the paging build: debug_assert!(layout.size()
\* > 0), then Ok(NonNull::new_unchecked(paging::allocate(layout.size()))):
\* the size in bytes is passed as the number of pages.
GlobalPagingAllocate(size) ==
   /\ ~PagingStopped
   /\ IF size = 0 /\ build = "debug"
      THEN /\ pcall' = [ op |-> "global_allocate", pages |-> size, ptr |-> NONE,
                         ret |-> NULL, outcome |-> "panic" ]
           /\ UNCHANGED <<ftab, runs>>
      ELSE \E r \in allocate(build, ftab, size) :
              /\ ftab' = r.ftab
              /\ pcall' = [ op |-> "global_allocate", pages |-> size, ptr |-> NONE,
                            ret |-> r.ret, outcome |-> r.outcome ]
              /\ runs' = IF r.outcome = "ok"
                         THEN runs \cup {Run(r.ret \div PAGE_SIZE, size)}
                         ELSE runs
   /\ UNCHANGED <<avars, lcall, build, pmem, mvars>>

\* Global::deallocate(ptr, layout) of the paging build, with a pointer
\* Global::allocate returned: paging::deallocate(ptr), the layout unused.
GlobalPagingDeallocate(run) ==
   /\ ~PagingStopped
   /\ run \in runs
   /\ LET pointer == ALLOC_START + PAGE_SIZE * run.first
          r == deallocate(build, ftab, pointer)
      IN /\ ftab' = r.ftab
         /\ pcall' = [ op |-> "global_deallocate", pages |-> run.n, ptr |-> pointer,
                       ret |-> NONE, outcome |-> r.outcome ]
   /\ runs' = runs \ {run}
   /\ UNCHANGED <<avars, lcall, build, pmem, mvars>>

NextGlobalPaging ==
   \/ \E size \in GlobalSizes : GlobalPagingAllocate(size)
   \/ \E run \in runs : GlobalPagingDeallocate(run)

SpecGlobalPaging == InitPaging /\ [][NextGlobalPaging]_vars

(* ------------------------------------------------------------ page tables *)

\* EntryFlags
EntryValid == 1
EntryRead == 2
EntryWrite == 4
EntryExecute == 8
EntryAccess == 64
EntryDirty == 128

\* Table::len(): `entries: [Entry; 512]`
TableLen == 512

\* The page number of the root Table the caller passes to map, unmap and
\* virt_to_phys; it lies outside the pages the Frame Table tracks.
ROOT == 128

\* a | b and a & b on usize
RECURSIVE BitOr(_, _)
BitOr(a, b) ==
   IF a = 0 THEN b
   ELSE IF b = 0 THEN a
   ELSE (IF a % 2 = 1 \/ b % 2 = 1 THEN 1 ELSE 0) + 2 * BitOr(a \div 2, b \div 2)

RECURSIVE BitAnd(_, _)
BitAnd(a, b) ==
   IF a = 0 \/ b = 0 THEN 0
   ELSE (IF a % 2 = 1 /\ b % 2 = 1 THEN 1 ELSE 0) + 2 * BitAnd(a \div 2, b \div 2)

\* `(entry & !0x3ff) << 2`, the address an entry points to, as a page number.
TableOf(e) == e \div 1024

\* Entry::is_valid, Entry::is_leaf (`entry & 0xe != 0`), Entry::is_branch
is_valid(e) == BitAnd(e, EntryValid) # 0
is_leaf(e) == BitAnd(e, 14) # 0
\* is_branch without the test that tells a leaf of a low frame from a branch.
is_branch_or_low_leaf(e) == ~is_leaf(e) \/ TableOf(e) < TableLen
is_branch(e) == ~is_leaf(e)

\* The array map builds: [(paddr >> 12) & 0x1ff, (paddr >> 21) & 0x1ff,
\* (paddr >> 30) & 0x3ff_ffff].  map names it `vpn` and walks with it; the
\* `ppn` of its last statement has no other definition.
PPN(paddr) ==
   << paddr.page % 512, (paddr.page \div 512) % 512,
      (paddr.page \div (512 * 512)) % (2 ^ 26) >>

\* The array virt_to_phys builds: [(vaddr >> 12) & 0x1ff,
\* (vaddr >> 21) & 0x1ff, (vaddr >> 30) & 0x1ff].
VPN(vaddr) ==
   << vaddr.page % 512, (vaddr.page \div 512) % 512,
      (vaddr.page \div (512 * 512)) % 512 >>

\* The entry map would write last if it left `bits` out.
LeafEntryWithoutBits(paddr, bits) ==
   LET ppn == PPN(paddr)
   IN BitOr(BitOr(BitOr(ppn[3] * (2 ^ 28), ppn[2] * (2 ^ 19)), ppn[1] * (2 ^ 10)),
            BitOr(EntryValid, BitOr(EntryDirty, EntryAccess)))

\* The entry map would write last if it set neither Dirty nor Access.
LeafEntryNotAccessed(paddr, bits) ==
   LET ppn == PPN(paddr)
   IN BitOr(BitOr(BitOr(ppn[3] * (2 ^ 28), ppn[2] * (2 ^ 19)), ppn[1] * (2 ^ 10)),
            BitOr(bits, EntryValid))

\* The entry map writes last: (ppn[2] << 28) | (ppn[1] << 19) | (ppn[0] << 10)
\* | bits | Valid | Dirty | Access.
LeafEntry(paddr, bits) ==
   LET ppn == PPN(paddr)
   IN BitOr(BitOr(BitOr(ppn[3] * (2 ^ 28), ppn[2] * (2 ^ 19)), ppn[1] * (2 ^ 10)),
            BitOr(bits, BitOr(EntryValid, BitOr(EntryDirty, EntryAccess))))

\* The entries left once page pg has been filled with zeroes.
ZeroPage(pt, pg) == [x \in {y \in DOMAIN pt : y[1] # pg} |-> pt[x]]

\* `let entry = ((v.entry() & !0x3ff) << 2) as *mut Entry;
\*  v = entry.add(vpn[i]).as_mut().unwrap()`: a null result panics in
\* unwrap, any other pointer made from the null table is dereferenced.  The
\* loop does not ask whether the valid entry is a leaf: the pointer made from
\* a leaf is the mapped frame, which holds no Table.
Descend(st, idx) ==
   LET e == Read(st.ptes, st.v)
       tp == TableOf(e)
   IN IF tp = 0
      THEN [st EXCEPT !.outcome = IF idx = 0 THEN "panic" ELSE "ub"]
      ELSE IF is_leaf(e)
      THEN [st EXCEPT !.outcome = "ub"]
      ELSE [st EXCEPT !.v = <<tp, idx>>]

\* One iteration of the loop of map, `for i in (level..2).rev()`, where idx
\* is vpn[i]: an invalid entry gets the page allocate_zeroed(1) returned,
\* `(page >> 2) | Valid`, with no test for null.
MapStep(b, st, idx) ==
   IF st.outcome # "ok" THEN {st}
   ELSE IF is_valid(Read(st.ptes, st.v)) THEN {Descend(st, idx)}
   ELSE { IF r.outcome = "ok"
          THEN LET pg == r.ret \div PAGE_SIZE
               IN Descend([st EXCEPT
                     !.ftab = r.ftab,
                     !.runs = @ \cup {Run(pg, 1)},
                     !.got = @ \cup {pg},
                     !.ptes = Write(ZeroPage(st.ptes, pg), st.v,
                                    BitOr(Shr(r.ret, 2), EntryValid))], idx)
          ELSE IF r.outcome = "null"
          THEN Descend([st EXCEPT
                  !.ptes = Write(st.ptes, st.v, BitOr(Shr(NULL, 2), EntryValid))], idx)
          ELSE [st EXCEPT !.ftab = r.ftab, !.outcome = r.outcome]
        : r \in allocate(b, st.ftab, 1) }

\* paging::map(root, vaddr, paddr, bits, level): the states it can end in.
map(b, t, pt, rs, vaddr, paddr, bits, level) ==
   LET vpn == PPN(paddr)
       st0 == [ ftab |-> t, ptes |-> pt, runs |-> rs, got |-> {},
                v |-> <<ROOT, vpn[3]>>, outcome |-> "ok" ]
       S1 == IF level <= 1 THEN MapStep(b, st0, vpn[2]) ELSE {st0}
       S0 == IF level <= 0 THEN UNION {MapStep(b, st, vpn[1]) : st \in S1} ELSE S1
   IN IF b = "debug" /\ BitAnd(bits, 14) = 0
      THEN {[st0 EXCEPT !.outcome = "panic"]}
      ELSE { IF st.outcome = "ok"
             THEN [st EXCEPT !.ptes = Write(st.ptes, st.v, LeafEntry(paddr, bits))]
             ELSE st
           : st \in S0 }

\* The first index from lv2 on at which the root holds a non-zero entry, or
\* TableLen: the entries the loop of unmap passes before it are zero.
NextEntry(pt, lv2) ==
   LET held == {x[2] : x \in {y \in DOMAIN pt : y[1] = ROOT /\ y[2] >= lv2}}
   IN IF held = {} THEN TableLen ELSE CHOOSE i \in held : \A k \in held : i <= k

\* The loop of paging::unmap, `for lv2 in 0..Table::len()`, from root index
\* lv2 on: every valid branch entry of the root has the table it points to
\* passed to paging::deallocate.  The loop over that table's entries frees
\* nothing, and no entry is cleared.
RECURSIVE unmap(_, _, _, _)
unmap(b, st, pt, lv2) ==
   IF lv2 >= TableLen \/ st.outcome # "ok" THEN st
   ELSE LET e == Read(pt, <<ROOT, lv2>>)
        IN IF is_valid(e) /\ is_branch(e)
           THEN LET memaddr_lv1 == TableOf(e) * PAGE_SIZE
                    r == deallocate(b, st.ftab, memaddr_lv1)
                IN unmap(b, [ ftab |-> r.ftab,
                              runs |-> st.runs \ {Run(TableOf(e), 1)},
                              freed |-> st.freed (+) SetToBag({memaddr_lv1}),
                              outcome |-> r.outcome ], pt, NextEntry(pt, lv2 + 1))
           ELSE unmap(b, st, pt, NextEntry(pt, lv2 + 1))

\* The walk of paging::virt_to_phys from entry v at level i.  A leaf at
\* level i gives `((v.entry() << 2) & !off_mask) | (vaddr & off_mask)` with
\* off_mask = (1 << (12 + i * 9)) - 1; a valid entry that is no leaf sends
\* the walk to `entry.add(vpn[i - 1])`.
RECURSIVE Translate(_, _, _, _)
Translate(pt, v, i, vaddr) ==
   LET e == Read(pt, v)
       m == 512 ^ i
   IN IF ~is_valid(e) THEN [ some |-> FALSE, ret |-> Addr(0, 0), outcome |-> "ok" ]
      ELSE IF is_leaf(e)
      THEN [ some |-> TRUE,
             ret |-> Addr(((TableOf(e) \div m) * m) + (vaddr.page % m), vaddr.off),
             outcome |-> "ok" ]
      ELSE IF i = 0 THEN [ some |-> FALSE, ret |-> Addr(0, 0), outcome |-> "panic" ]
      ELSE IF TableOf(e) = 0 THEN [ some |-> FALSE, ret |-> Addr(0, 0), outcome |-> "ub" ]
      ELSE Translate(pt, <<TableOf(e), VPN(vaddr)[i]>>, i - 1, vaddr)

\* paging::virt_to_phys(root, vaddr)
virt_to_phys(pt, vaddr) == Translate(pt, <<ROOT, VPN(vaddr)[3]>>, 2, vaddr)

\* Inputs of the calls.
MapVaddrs == {Addr(1, 0), Addr(524289, 0)}
MapPaddrs == {Addr(524289, 0), Addr(1, 0)}
MapBits == {BitOr(EntryRead, EntryWrite), EntryExecute}
MapLevels == {0, 1, 2}
Offsets == {0, 4095}

\* Frame Tables the page-table calls start on: all Empty, one whose first
\* two pages are already Taken, and one with no page left.
MmuTables ==
   { [i \in PageIndex |-> Empty],
     [i \in PageIndex |-> IF i < 2 THEN Taken ELSE Empty],
     [i \in PageIndex |-> Taken + Last] }

InitMmu ==
   /\ heap = NoHeap
   /\ mem = [a \in {} |-> NULL]
   /\ live = EmptyBag
   /\ last = NoCall
   /\ halted = FALSE
   /\ run1k = NONE
   /\ lock = 0
   /\ outer = 0
   /\ pc = [p \in Procs |-> "idle"]
   /\ frame = [p \in Procs |-> NoFrame]
   /\ lcall = NoLayoutCall
   /\ build \in {"debug", "release"}
   /\ ftab \in MmuTables
   /\ runs = {}
   /\ pcall = NoPagingCall
   /\ pmem = [i \in PageIndex |-> "stale"]
   /\ ptes = [x \in {} |-> 0]
   /\ mcall = NoMmuCall
   /\ freed = EmptyBag

\* The program has stopped in page-table code.
MmuStopped == mcall.outcome \in {"panic", "ub"}

\* What the pages hold once the tables are pt.
PagesOf(pm, pt, got) ==
   [k \in PageIndex |-> IF \E x \in DOMAIN pt : x[1] = k THEN "table"
                        ELSE IF k \in got THEN "zero" ELSE pm[k]]

\* paging::map(root, vaddr, paddr, bits, level)
Map(vaddr, paddr, bits, level) ==
   /\ ~MmuStopped
   /\ mcall.maps < MaxMaps
   /\ \E st \in map(build, ftab, ptes, runs, vaddr, paddr, bits, level) :
         /\ ftab' = st.ftab
         /\ ptes' = st.ptes
         /\ runs' = st.runs
         /\ pmem' = PagesOf(pmem, st.ptes, st.got)
         /\ mcall' = [NoMmuCall EXCEPT !.op = "map", !.vaddr = vaddr, !.paddr = paddr,
                         !.bits = bits, !.level = level, !.outcome = st.outcome,
                         !.maps = mcall.maps + 1]
   /\ freed' = EmptyBag
   /\ UNCHANGED <<avars, lcall, build, pcall>>

\* paging::unmap(root)
Unmap ==
   /\ ~MmuStopped
   /\ mcall.unmaps < MaxUnmaps
   /\ LET st == unmap(build, [ ftab |-> ftab, runs |-> runs, freed |-> freed,
                               outcome |-> "ok" ], ptes, NextEntry(ptes, 0))
      IN /\ ftab' = st.ftab
         /\ runs' = st.runs
         /\ freed' = st.freed
         /\ mcall' = [NoMmuCall EXCEPT !.op = "unmap", !.outcome = st.outcome,
                         !.maps = mcall.maps, !.unmaps = mcall.unmaps + 1]
   /\ UNCHANGED <<avars, lcall, build, pcall, pmem, ptes>>

\* paging::virt_to_phys(root, vaddr)
VirtToPhys(vaddr) ==
   /\ ~MmuStopped
   /\ LET r == virt_to_phys(ptes, vaddr)
      IN mcall' = [NoMmuCall EXCEPT !.op = "virt_to_phys", !.vaddr = vaddr,
                      !.some = r.some, !.ret = r.ret, !.outcome = r.outcome,
                      !.maps = mcall.maps, !.unmaps = mcall.unmaps]
   /\ UNCHANGED <<avars, lcall, build, ftab, runs, pcall, pmem, ptes, freed>>

NextMmu ==
   \/ \E vaddr \in MapVaddrs, paddr \in MapPaddrs, bits \in MapBits, level \in MapLevels :
         Map(vaddr, paddr, bits, level)
   \/ Unmap
   \/ \E vaddr \in MapVaddrs, off \in Offsets : VirtToPhys(Addr(vaddr.page, off))

SpecMmu == InitMmu /\ [][NextMmu]_vars

\* paging::virt_to_phys on its own, on any content of the three tables the
\* walk for the inputs passes: the root, and the tables in pages 2 and 3.
\* An entry is zero, a branch to the next table, a valid entry with no
\* R/W/X bit that names a frame, or a leaf.
WalkEntries(next) ==
   { 0,
     BitOr(next * 1024, EntryValid),
     BitOr(524289 * 1024, EntryValid),
     LeafEntry(Addr(524289, 0), EntryRead) }

WalkTables ==
   { (<<ROOT, 0>> :> e2) @@ (<<2, 0>> :> e1) @@ (<<3, 1>> :> e0) :
        e2 \in WalkEntries(2), e1 \in WalkEntries(3), e0 \in WalkEntries(4) }

InitWalk ==
   /\ heap = NoHeap
   /\ mem = [a \in {} |-> NULL]
   /\ live = EmptyBag
   /\ last = NoCall
   /\ halted = FALSE
   /\ run1k = NONE
   /\ lock = 0
   /\ outer = 0
   /\ pc = [p \in Procs |-> "idle"]
   /\ frame = [p \in Procs |-> NoFrame]
   /\ lcall = NoLayoutCall
   /\ build \in {"debug", "release"}
   /\ ftab = [i \in PageIndex |-> IF i < 4 THEN Taken + Last ELSE Empty]
   /\ runs = {}
   /\ pcall = NoPagingCall
   /\ pmem = [i \in PageIndex |-> IF i \in {2, 3} THEN "table" ELSE "stale"]
   /\ ptes \in WalkTables
   /\ mcall = NoMmuCall
   /\ freed = EmptyBag

NextWalk == \E vaddr \in MapVaddrs, off \in Offsets : VirtToPhys(Addr(vaddr.page, off))

SpecWalk == InitWalk /\ [][NextWalk]_vars

(* ------------------------------------------------ vocabulary of the claims *)

\* Glossary: block size of an order = min_block_size << order.
BlockSize(h, order) == h.min_block_size * (2 ^ order)

Orders(h) == 0..(Len(h.free_lists) - 1)

\* The nodes of a free list, following `next` from its head.
RECURSIVE ListFrom(_, _, _)
ListFrom(m, cur, fuel) ==
   IF cur = NULL \/ fuel = 0 THEN <<>>
   ELSE <<cur>> \o ListFrom(m, Read(m, cur), fuel - 1)

FreeList(h, m, order) ==
   ListFrom(m, h.free_lists[order + 1], Cardinality(Addrs) + 1)

\* The bytes [at, at + size) at the granularity of the model.
Extent(at, size) == {a \in Addrs : at <= a /\ a < at + size}

HeapRange(h) == Extent(h.heap_base, h.heap_size)

\* Every occurrence of a block on a free list, and every block handed out.
FreeOccurrences(h, m) ==
   {<<o, i>> : o \in Orders(h), i \in 1..Cardinality(Addrs) + 1} \cap
   {x \in Orders(h) \X (1..Cardinality(Addrs) + 1) : x[2] <= Len(FreeList(h, m, x[1]))}

LiveOccurrences == {<<b, c>> : b \in BagToSet(live), c \in 1..MaxLive + 1} \cap
   {x \in BagToSet(live) \X (1..MaxLive + 1) : x[2] <= CopiesIn(x[1], live)}

FreeExtent(h, m, x) == Extent(FreeList(h, m, x[1])[x[2]], BlockSize(h, x[1]))

LiveExtent(h, b) == Extent(b.ptr, BlockSize(h, b.order))

\* How many free or handed-out blocks hold the granule g.
Cover(h, m, g) ==
   Cardinality({x \in FreeOccurrences(h, m) : g \in FreeExtent(h, m, x)})
   + Cardinality({x \in LiveOccurrences : g \in LiveExtent(h, x[1])})

\* The state Heap::new leaves: one block at heap_base on the top-order list.
FreshLists(h) ==
   [i \in 1..Len(h.free_lists) |-> IF i = Len(h.free_lists) THEN h.heap_base ELSE NULL]

Scenario64K == heap.some /\ heap.heap_size = 65536 /\ Len(heap.free_lists) = 5

(* ------------------------------------------------------------------ claims *)

\* C1: conservation.  In every state reached by Heap::new, Heap::allocate and
\* paired deallocations, the blocks on the free lists and the blocks handed
\* out are pairwise disjoint and together they are exactly the heap range:
\* every granule of the heap is held by exactly one block, and no block
\* reaches outside the heap.
C1_Conservation ==
   heap.some =>
      /\ \A g \in HeapRange(heap) : Cover(heap, mem, g) = 1
      /\ \A g \in Addrs \ HeapRange(heap) : Cover(heap, mem, g) = 0

\* C2: on the 64 KiB heap with 5 orders, after four successive allocate calls
\* of 1 KiB the four blocks are distinct 4 KiB blocks that do not overlap,
\* free list 0 is empty, and what is left free is one 16 KiB block and one
\* 32 KiB block.
C2_FourOneKiB ==
   (Scenario64K /\ run1k = 4) =>
      /\ BagCardinality(live) = 4
      /\ \A b \in BagToSet(live) : CopiesIn(b, live) = 1 /\ b.order = 0
      /\ \A b, c \in BagToSet(live) :
            b # c => LiveExtent(heap, b) \cap LiveExtent(heap, c) = {}
      /\ FreeList(heap, mem, 0) = <<>>
      /\ FreeList(heap, mem, 1) = <<>>
      /\ Len(FreeList(heap, mem, 2)) = 1
      /\ Len(FreeList(heap, mem, 3)) = 1
      /\ FreeList(heap, mem, 4) = <<>>

\* C3: full coalescing.  Once every block obtained from Heap::allocate has
\* been given back through deallocate with its layout, the heap is as
\* Heap::new left it: one block at heap_base on the top-order list, every
\* lower list empty.
C3_FullCoalescing ==
   (heap.some /\ ~halted /\ live = EmptyBag) =>
      /\ heap.free_lists = FreshLists(heap)
      /\ FreeList(heap, mem, Len(heap.free_lists) - 1) = <<heap.heap_base>>

\* C4: order determinism.  No call changes what allocation_size and
\* allocation_order return for a layout: they return after the call what
\* they returned before it, and for every block handed out they return at
\* any later time (when it is deallocated) the order it was allocated with.
C4_OrderDeterminism ==
   [][ heap.some =>
         /\ \A l \in CallLayouts :
               /\ AllocationSize(heap', l) = AllocationSize(heap, l)
               /\ AllocationOrder(heap', l) = AllocationOrder(heap, l)
         /\ \A b \in BagToSet(live') : AllocationOrder(heap', b.layout) = b.order
     ]_vars

C4_Witness ==
   /\ last.op = "deallocate" /\ last.outcome = "ok" /\ last.order = 1
   /\ live # EmptyBag

Pow2s == {2 ^ k : k \in 0..20}

\* The size the claim states: None for an alignment that is no power of two
\* or exceeds MIN_HEAP_ALIGN, else the least power of two that is at least
\* size, align and min_block_size, or None when that exceeds heap_size.
C5_StatedSize(h, l) ==
   IF l.align \notin Pow2s \/ l.align > MIN_HEAP_ALIGN THEN NONE
   ELSE LET need == Max(l.size, Max(l.align, h.min_block_size))
            p == CHOOSE p \in Pow2s :
                    p >= need /\ \A q \in Pow2s : q >= need => p <= q
        IN IF p > h.heap_size THEN NONE ELSE p

\* C5: allocation_size(layout) is the size the claim states, for every
\* layout, on every heap heap::init installs.
C5_AllocationSize ==
   heap.some => \A l \in AllLayouts : AllocationSize(heap, l) = C5_StatedSize(heap, l)

C5_Witness ==
   /\ heap.some /\ heap.min_block_size = 2048
   /\ last.op = "allocate" /\ last.layout = Layout(16, 4096) /\ last.order = 1
   /\ AllocationSize(heap, last.layout) = 4096

\* C6: the block a successful Heap::allocate(layout) returns lies inside the
\* heap, starts at a multiple of layout.align (its offset from heap_base is a
\* multiple of allocation_size(layout)), and its bytes are in no free block
\* and in no other block handed out.
C6_ReturnedBlock ==
   (heap.some /\ last.op = "allocate" /\ last.outcome = "ok") =>
      LET bytes == Extent(last.ptr, Max(last.layout.size, 1))
      IN /\ last.ptr >= heap.heap_base
         /\ last.ptr + last.layout.size <= heap.heap_base + heap.heap_size
         /\ last.ptr % last.layout.align = 0
         /\ (last.ptr - heap.heap_base) % AllocationSize(heap, last.layout) = 0
         /\ \A x \in FreeOccurrences(heap, mem) : FreeExtent(heap, mem, x) \cap bytes = {}
         /\ Cardinality({x \in LiveOccurrences : LiveExtent(heap, x[1]) \cap bytes # {}}) = 1

\* C7: Heap::allocate(layout) returns Err(AllocError) when allocation_order
\* is None or every free list of the needed order and above is empty, and a
\* call that returns Err leaves the free lists (and the memory) as they were.
C7_FailedAllocate ==
   [][ \A layout \in CallLayouts :
          Allocate(layout) =>
             LET needed == AllocationOrder(heap, layout)
                 none_left == \/ needed = NONE
                              \/ \A o \in needed..(Len(heap.free_lists) - 1) :
                                    heap.free_lists[o + 1] = NULL
             IN /\ none_left => (last'.outcome = "err" /\ last'.ptr = NULL)
                /\ last'.outcome = "err" => (heap' = heap /\ mem' = mem /\ live' = live)
     ]_vars

C7_Witness ==
   /\ last.op = "allocate" /\ last.outcome = "err" /\ last.order # NONE
   /\ \E i \in 1..Len(heap.free_lists) : heap.free_lists[i] # NULL

\* A call of p has ended: it returned ("done") or it panicked.
Ended(p) == pc[p] \in {"done", "panicked"}

\* C8: Global::allocate reports a request the backend cannot satisfy as
\* Err(AllocError): whenever an allocate call through the facade has ended
\* and the heap had no block for it, the call returned Err (it did not
\* panic), and a call that returned Ok did not return the null pointer.
C8_FailureIsReturned ==
   \A p \in Procs :
      (Ended(p) /\ frame[p].op \in {"g_alloc", "l_alloc"}) =>
         /\ frame[p].heap_err => frame[p].outcome = "err"
         /\ frame[p].outcome = "ok" => frame[p].new_ptr # NULL

\* C9: every access to the heap is made under the HEAP lock, one holder at a
\* time: a caller inside heap.allocate / heap.deallocate is the holder of the
\* lock, a caller outside them is not, no two callers are inside at once, and
\* a caller inside a Locked<A> call is the holder of that allocator's mutex.
C9_MutualExclusion ==
   /\ \A p \in Procs :
         /\ pc[p] \in {"a_held", "d_held"} => lock = p
         /\ pc[p] \in {"idle", "a_lock", "copy", "d_lock", "done"} => lock # p
         /\ (frame[p].op \in {"l_alloc", "l_dealloc"} /\ pc[p] \notin {"done", "panicked"})
               => outer = p
   /\ \A p, q \in Procs :
         (pc[p] \in {"a_held", "d_held"} /\ pc[q] \in {"a_held", "d_held"}) => p = q

\* One caller is inside heap.allocate holding the lock while another has
\* entered a Locked<Global> call and waits for the same lock.
C9_Witness ==
   \E p, q \in Procs :
      /\ p # q
      /\ pc[p] = "a_held" /\ lock = p /\ heap.some
      /\ pc[q] \in {"a_lock", "d_lock"} /\ outer = q

\* C10: grow, shrink and __rustc_reallocate allocate the new block, copy
\* min(old, new) bytes and release the old block; when the allocation fails
\* the failure is returned.  Whenever such a call has ended: if the heap had
\* no block for it the call returned the failure, and if it returned a block
\* the copied prefix of the new block holds what the old block held when the
\* call began.
C10_Reallocation ==
   \A p \in Procs :
      (Ended(p) /\ frame[p].op \in Moves) =>
         /\ frame[p].heap_err => frame[p].outcome = "err"
         /\ (frame[p].outcome = "ok" /\ CopyLen(frame[p]) >= SizeOfFreeBlock)
               => frame[p].new_word = frame[p].word

\* C11: Layout::from_size_align(size, align) returns Err(LayoutError) when
\* align is zero, when align is not a power of two, or when size + align - 1
\* exceeds usize::MAX; in every other case it returns Ok with exactly that
\* size and that align.
C11_FromSizeAlign ==
   lcall.done =>
      IF \/ lcall.align = 0
         \/ lcall.align \notin Pow2s
         \/ lcall.size + lcall.align - 1 > USIZE_MAX
      THEN ~lcall.ok
      ELSE lcall.ok /\ lcall.layout = Layout(lcall.size, lcall.align)

\* C12: a successful paging::allocate(n) marks every one of the n pages of
\* the returned run Taken, marks the last page of the run, and only that
\* page, Last, and returns ALLOC_START + PAGE_SIZE * i for the index i of the
\* first page of the run.
C12_AllocateMarks ==
   [][ \A n \in PageCounts :
          (PagingAllocate(n) /\ pcall'.outcome = "ok") =>
             LET i == (pcall'.ret - ALLOC_START) \div PAGE_SIZE
             IN /\ pcall'.ret = ALLOC_START + PAGE_SIZE * i
                /\ i \in PageIndex /\ i + n - 1 \in PageIndex
                /\ \A k \in i..(i + n - 1) : is_taken(ftab'[k])
                /\ is_last(ftab'[i + n - 1])
                /\ \A k \in i..(i + n - 2) : is_last(ftab'[k]) = is_last(ftab[k])
     ]_vars

\* C13: in every state reached by paging::allocate and correctly paired
\* paging::deallocate calls, no page belongs to two live runs, every page of
\* a live run is Taken, and within a live run Last is set exactly on its
\* final page.  (That a Taken page belongs to some live run is left out: it
\* depends on what the table held before the first call.)
C13_NoOverlap ==
   pcall.outcome # "ub" =>
      /\ \A r1, r2 \in runs : r1 # r2 => RunPages(r1) \cap RunPages(r2) = {}
      /\ \A r \in runs : \A k \in RunPages(r) :
            /\ is_taken(ftab[k])
            /\ is_last(ftab[k]) <=> (k = r.first + r.n - 1)

\* The indices at which a run of n pages, none of them taken, fits the table.
Fits(t, n) == {i \in 0..(NumPages - n) : \A k \in i..(i + n - 1) : is_free(t[k])}

\* C14: paging::allocate(n) is first-fit and complete: it returns the run
\* that starts at the lowest index i of 0 .. num_pages - n whose n pages are
\* all free, and it returns null exactly when there is no such index.
C14_FirstFit ==
   [][ \A n \in PageCounts :
          PagingAllocate(n) =>
             IF Fits(ftab, n) = {}
             THEN pcall'.outcome = "null" /\ pcall'.ret = NULL
             ELSE /\ pcall'.outcome = "ok"
                  /\ \E i \in Fits(ftab, n) :
                        /\ \A k \in Fits(ftab, n) : i <= k
                        /\ pcall'.ret = ALLOC_START + PAGE_SIZE * i
     ]_vars

\* C15: paging::deallocate of the pointer paging::allocate returned clears
\* exactly the pages of that run, the first through the one marked Last,
\* and leaves the flags of every other page as they were, so that the table
\* is again what it was before the run was allocated.
C15_RoundTrip ==
   [][ \A run \in runs :
          PagingDeallocate(run) =>
             /\ pcall'.outcome = "ok"
             /\ \A k \in PageIndex :
                   ftab'[k] = IF k \in RunPages(run) THEN Empty ELSE ftab[k]
     ]_vars

\* C16, as stated: paging::deallocate on a pointer whose starting page is not
\* Taken ends in the assertion-failure state and changes no Frame Table
\* entry.
C16_NotTaken ==
   [][ \A i \in PageIndex :
          (PagingDeallocateAny(i) /\ ~is_taken(ftab[i])) =>
             pcall'.outcome = "panic" /\ ftab' = ftab
     ]_vars

\* C16, amended: in a build with debug assertions the call ends in the
\* assertion-failure state and changes no Frame Table entry; in a build
\* without them it returns, and the only entry it can have changed is the
\* starting page's, which is then Empty.
C16_NotTakenByBuild ==
   [][ \A i \in PageIndex :
          (PagingDeallocateAny(i) /\ ~is_taken(ftab[i])) =>
             IF build = "debug"
             THEN pcall'.outcome = "panic" /\ ftab' = ftab
             ELSE /\ pcall'.outcome = "ok"
                  /\ ftab' = [ftab EXCEPT ![i] = Empty]
     ]_vars

\* A debug build has refused to free a page that is not Taken.
C16_Witness ==
   /\ build = "debug"
   /\ pcall.op = "deallocate" /\ pcall.outcome = "panic"
   /\ ~is_taken(ftab[pcall.ptr \div PAGE_SIZE])

\* C17: the forward walk of paging::deallocate stays inside the Frame
\* Table: whatever the table holds, the call reads and clears no entry at an
\* index >= num_pages, and when the pages from the given one on are Taken
\* with no Last marker up to the end of the table it ends in the failure
\* state.
C17_WalkBounded ==
   [][ \A i \in PageIndex :
          PagingDeallocateAny(i) =>
             /\ pcall'.outcome # "ub"
             /\ (\A k \in i..(NumPages - 1) : ftab[k] = Taken)
                   => pcall'.outcome = "panic"
     ]_vars

\* C18: when no run of n free pages exists, paging::allocate(n) returns
\* null and leaves every Frame Table entry unchanged, and
\* paging::allocate_zeroed(n) returns null as well and writes no memory; a
\* successful allocate_zeroed(n) leaves every page of the returned run zero.
C18_NoRun ==
   [][ \A n \in PageCounts :
          /\ ((PagingAllocate(n) \/ PagingAllocateZeroed(n)) /\ Fits(ftab, n) = {}) =>
                /\ pcall'.outcome = "null" /\ pcall'.ret = NULL
                /\ ftab' = ftab
                /\ pmem' = pmem
          /\ (PagingAllocateZeroed(n) /\ pcall'.outcome = "ok") =>
                \A k \in PageIndex :
                   (k >= pcall'.ret \div PAGE_SIZE /\ k < pcall'.ret \div PAGE_SIZE + n)
                      => pmem'[k] = "zero"
     ]_vars


\* C19: after map(root, vaddr, paddr, bits, 0) has returned, with vaddr and
\* paddr page-aligned and bits holding Read, Write or Execute,
\* virt_to_phys(root, vaddr + off) returns Some(paddr + off) for every page
\* offset off.
C19_MapRoundTrip ==
   [][ \A off \in Offsets :
          ( /\ mcall.op = "map"
            /\ mcall.outcome = "ok"
            /\ mcall.level = 0
            /\ BitAnd(mcall.bits, 14) # 0
            /\ VirtToPhys(Addr(mcall.vaddr.page, off)) )
          => ( /\ mcall'.outcome = "ok"
               /\ mcall'.some
               /\ mcall'.ret = Addr(mcall.paddr.page, off) ) ]_vars

\* C20: unmap on a root with no valid entry changes neither the tables nor
\* the Frame Table, and the calls of unmap made since the last map pass no
\* frame to paging::deallocate more than once.
C20_UnmapIdempotent ==
   [][ /\ ( Unmap /\ (\A x \in DOMAIN ptes : x[1] = ROOT => ~is_valid(ptes[x])) )
          => (ptes' = ptes /\ ftab' = ftab)
       /\ \A x \in BagToSet(freed') : CopiesIn(x, freed') <= 1 ]_vars

\* The frames map has obtained from allocate_zeroed for its tables.
TableFrames == {k \in PageIndex : pmem[k] # "stale"}

\* The tables a table holds valid branch entries to.
TablesBelow(pt, pg) ==
   {TableOf(pt[x]) : x \in {y \in DOMAIN pt : y[1] = pg /\ is_valid(pt[y]) /\ is_branch(pt[y])}}

\* C21: when unmap(root) returns after a sequence of map calls, every frame
\* map obtained for a level-1 or level-0 table has been passed to
\* paging::deallocate exactly once and is Empty in the Frame Table, and no
\* table has been freed while a table below it has not.
C21_NoLeakedTables ==
   [][ ( /\ Unmap
         /\ mcall.op = "map"
         /\ mcall'.outcome = "ok" )
       => ( /\ \A k \in TableFrames :
                  /\ CopiesIn(k * PAGE_SIZE, freed') = 1
                  /\ ftab'[k] = Empty
            /\ \A a \in BagToSet(freed') :
                  \A k \in TablesBelow(ptes, a \div PAGE_SIZE) :
                     BagIn(k * PAGE_SIZE, freed') ) ]_vars

MeetsInvalid(pt, vaddr) ==
   LET vpn == VPN(vaddr)
       e2 == Read(pt, <<ROOT, vpn[3]>>)
       e1 == Read(pt, <<TableOf(e2), vpn[2]>>)
       e0 == Read(pt, <<TableOf(e1), vpn[1]>>)
   IN \/ ~is_valid(e2)
      \/ /\ ~is_leaf(e2)
         /\ \/ ~is_valid(e1)
            \/ ~is_leaf(e1) /\ ~is_valid(e0)

\* The pages map(root, vaddr, _, _, level) maps: the 512^level pages of the
\* aligned range vaddr lies in.
SameMapping(page, vaddr, level) == page \div (512 ^ level) = vaddr.page \div (512 ^ level)

\* virt_to_phys returned None.
ReturnedNone(c) == c.op = "virt_to_phys" /\ c.outcome = "ok" /\ ~c.some

\* C23: virt_to_phys(root, vaddr) changes no table, returns None when the
\* walk for vaddr meets an invalid entry, and so returns None on an empty
\* root and for every vaddr whose page was never mapped.
C23_VirtToPhysNone ==
   [][ \A vaddr \in MapVaddrs, off \in Offsets :
          VirtToPhys(Addr(vaddr.page, off))
          => ( /\ ptes' = ptes /\ ftab' = ftab
               /\ MeetsInvalid(ptes, vaddr) => ReturnedNone(mcall')
               /\ ( \/ \A x \in DOMAIN ptes : ~is_valid(ptes[x])
                    \/ /\ mcall.op = "map"
                       /\ mcall.outcome = "ok"
                       /\ mcall.maps = 1
                       /\ ~SameMapping(vaddr.page, mcall.vaddr, mcall.level) )
                  => ReturnedNone(mcall') ) ]_vars

\* The tables reachable from the root through valid branch entries.
ReachableTables(pt) ==
   LET l1 == TablesBelow(pt, ROOT)
       l0 == UNION {TablesBelow(pt, t) : t \in l1}
   IN {ROOT} \cup l1 \cup l0

\* The three kinds of entry, by the bits of the entry.
PermBits(e) == BitAnd(e, EntryRead + EntryWrite + EntryExecute)
IsInvalidEntry(e) == BitAnd(e, EntryValid) = 0
IsBranchEntry(e, frames) ==
   BitAnd(e, EntryValid) # 0 /\ PermBits(e) = 0 /\ TableOf(e) \in frames
IsLeafEntry(e) == BitAnd(e, EntryValid) # 0 /\ PermBits(e) # 0

\* Exactly one of the three.
OneKind(e, frames) ==
   /\ IsInvalidEntry(e) \/ IsBranchEntry(e, frames) \/ IsLeafEntry(e)
   /\ ~(IsInvalidEntry(e) /\ IsBranchEntry(e, frames))
   /\ ~(IsInvalidEntry(e) /\ IsLeafEntry(e))
   /\ ~(IsBranchEntry(e, frames) /\ IsLeafEntry(e))

\* The entries map(root, _, paddr, _, level) passes on its way down, root
\* first, the last one being the entry it writes.
MapPath(pt, paddr, level) ==
   LET ppn == PPN(paddr)
       p2 == <<ROOT, ppn[3]>>
       p1 == <<TableOf(Read(pt, p2)), ppn[2]>>
       p0 == <<TableOf(Read(pt, p1)), ppn[1]>>
   IN IF level = 2 THEN <<p2>> ELSE IF level = 1 THEN <<p2, p1>> ELSE <<p2, p1, p0>>

C25_ZeroSized ==
   [][ \A p \in Procs :
          ( /\ pc[p] = "idle"
            /\ frame'[p].op \in {"g_alloc", "g_dealloc"}
            /\ frame'[p].layout.size = 0 )
          => ( /\ pc'[p] = "done"
               /\ frame'[p].outcome = "ok"
               /\ heap' = heap /\ mem' = mem /\ lock' = lock
               /\ frame'[p].op = "g_alloc"
                  => /\ frame'[p].new_ptr # NULL
                     /\ frame'[p].new_ptr = frame'[p].layout.align
                     /\ frame'[p].new_ptr % frame'[p].layout.align = 0
                     /\ frame'[p].len = 0 ) ]_vars

\* A zero-sized allocation with alignment 8 has returned while the heap
\* holds a block it has handed out.
C25_Witness ==
   \E p \in Procs :
      /\ pc[p] = "done" /\ frame[p].op = "g_alloc"
      /\ frame[p].layout = Layout(0, 8)
      /\ heap.some
      /\ \E b \in BagToSet(live) : b.layout.size # 0

\* C26: when Heap::allocate pops a block B of an order k above the needed
\* order m, it returns B and leaves each free list of order j, m <= j < k,
\* with exactly one new block, B + block_size(j), and list k without B.
C26_Splitting ==
   [][ \A layout \in CallLayouts :
          LET r == HeapAllocate(heap, mem, layout)
              m == AllocationOrder(heap, layout)
              k == r.popped
          IN ( /\ Allocate(layout)
               /\ r.ret # NULL
               /\ k > m )
             => ( /\ last'.ptr = r.ret
                  /\ FreeList(heap, mem, k) = <<r.ret>> \o FreeList(heap', mem', k)
                  /\ \A j \in m..(k - 1) :
                        FreeList(heap', mem', j)
                           = <<r.ret + BlockSize(heap, j)>> \o FreeList(heap, mem, j) ) ]_vars

\* C27: order_size(order) is min_block_size << order for every order of the
\* heap, so order_size(allocation_order(layout)) is allocation_size(layout)
\* for every layout the heap accepts, and order_size of the top order is
\* heap_size.
C27_OrderSize ==
   heap.some =>
      /\ \A order \in Orders(heap) : OrderSize(heap, order) = BlockSize(heap, order)
      /\ \A l \in AllLayouts :
            AllocationOrder(heap, l) # NONE
            => OrderSize(heap, AllocationOrder(heap, l)) = AllocationSize(heap, l)
      /\ OrderSize(heap, Len(heap.free_lists) - 1) = heap.heap_size

\* The lowest order from m on whose free list holds a block, or NONE.
LowestHeld(h, m) ==
   LET held == {j \in Orders(h) : j >= m /\ h.free_lists[j + 1] # NULL}
   IN IF held = {} THEN NONE ELSE CHOOSE j \in held : \A i \in held : j <= i

\* C28: a successful Heap::allocate returns the head of the free list of the
\* lowest order, from allocation_order(layout) up, that holds a block; it
\* unlinks that head, leaves every list of a higher order alone and pops
\* nothing from a list below the needed order.
C28_LowestAdequateOrder ==
   [][ \A layout \in CallLayouts :
          ( Allocate(layout) /\ last'.outcome = "ok" )
          => LET m == AllocationOrder(heap, layout)
                 k == LowestHeld(heap, m)
             IN /\ k # NONE
                /\ last'.ptr = heap.free_lists[k + 1]
                /\ heap'.free_lists[k + 1] = Read(mem, last'.ptr)
                /\ \A j \in Orders(heap) :
                      (j < m \/ j > k) => heap'.free_lists[j + 1] = heap.free_lists[j + 1] ]_vars

\* Heap::allocate has returned a block while a free list below the needed
\* order holds a block.
C28_Witness ==
   /\ heap.some /\ last.op = "allocate" /\ last.outcome = "ok"
   /\ \E j \in Orders(heap) : j < last.order /\ heap.free_lists[j + 1] # NULL

C30_FreeListsWellFormed ==
   heap.some =>
      /\ \A x \in FreeOccurrences(heap, mem) :
            LET a == FreeList(heap, mem, x[1])[x[2]]
            IN /\ heap.heap_base <= a /\ a < heap.heap_base + heap.heap_size
               /\ (a - heap.heap_base) % BlockSize(heap, x[1]) = 0
      /\ \A x, y \in FreeOccurrences(heap, mem) :
            x # y => FreeList(heap, mem, x[1])[x[2]] # FreeList(heap, mem, y[1])[y[2]]
      /\ \A k \in Orders(heap) : Len(FreeList(heap, mem, k)) <= Cardinality(Addrs)

\* The offsets from heap_base at which a block of order k can start.
BlockOffsets(h, k) == {a \in 0..(h.heap_size - 1) : a % BlockSize(h, k) = 0 /\ h.heap_base + a \in Addrs}

\* C31: for a block of an order k below the top order at offset a from
\* heap_base, buddy(k, block) is heap_base + (a XOR block_size(k)): another
\* block, aligned to block_size(k), inside the heap, whose own buddy is the
\* block; and buddy is None exactly when block_size(k) >= heap_size.
C31_BuddyLaw ==
   heap.some =>
      \A k \in Orders(heap) : \A a \in BlockOffsets(heap, k) :
         LET block == heap.heap_base + a
             b == Buddy(heap, k, block)
         IN /\ b = NONE <=> BlockSize(heap, k) >= heap.heap_size
            /\ k < Len(heap.free_lists) - 1
               => /\ b = heap.heap_base + Xor(a, BlockSize(heap, k))
                  /\ b # block
                  /\ (b - heap.heap_base) % BlockSize(heap, k) = 0
                  /\ heap.heap_base <= b /\ b < heap.heap_base + heap.heap_size
                  /\ Buddy(heap, k, b) = block

\* The list s without the block.
Without(s, block) == SelectSeq(s, LAMBDA x : x # block)

\* C32: free_list_remove(order, block) returns true and unlinks exactly that
\* block when it is anywhere in free_lists[order], keeping the other nodes in
\* their order; it returns false and leaves the list as it was when the
\* block is not in it; the free lists of the other orders are not changed.
C32_FreeListRemove ==
   [][ \A order \in 0..2, block \in RemoveBlocks :
          FreeListRemoveCall(order, block)
          => LET before == FreeList(heap, mem, order)
                 after == FreeList(heap', mem', order)
                 inlist == \E i \in DOMAIN before : before[i] = block
             IN /\ inlist => last'.outcome = "true" /\ after = Without(before, block)
                /\ ~inlist => last'.outcome = "false" /\ after = before
                /\ \A k \in Orders(heap) :
                      k # order => FreeList(heap', mem', k) = FreeList(heap, mem, k) ]_vars

\* ((paddr >> 12) << 10) | b | Valid | Access | Dirty, the bits being apart.
StatedLeaf(paddr, b) == paddr.page * 1024 + b + EntryValid + EntryAccess + EntryDirty

\* C33: the leaf entry map writes for physical address paddr with permission
\* bits b is ((paddr >> 12) << 10) | b | Valid | Access | Dirty.
C33_LeafEntryValue ==
   [][ ( mcall'.op = "map" /\ mcall'.maps = mcall.maps + 1 /\ mcall'.outcome = "ok" )
       => LET path == MapPath(ptes', mcall'.paddr, mcall'.level)
              e == Read(ptes', path[Len(path)])
          IN /\ e = StatedLeaf(mcall'.paddr, mcall'.bits)
             /\ e \div 1024 = mcall'.paddr.page
             /\ BitAnd(e, 30) = mcall'.bits
             /\ BitAnd(e, EntryValid + EntryAccess + EntryDirty)
                   = EntryValid + EntryAccess + EntryDirty ]_vars

\* map has written the level-0 leaf for paddr 0x80001000 with Read|Write.
C33_Witness ==
   /\ mcall.op = "map" /\ mcall.outcome = "ok" /\ mcall.level = 0
   /\ mcall.paddr = Addr(524289, 0) /\ mcall.bits = EntryRead + EntryWrite
   /\ Read(ptes, MapPath(ptes, mcall.paddr, 0)[3]) = 524289 * 1024 + 6 + 193

\* The leaf the walk for vaddr meets, with its level; level NONE if none.
WalkLeaf(pt, vaddr) ==
   LET vpn == VPN(vaddr)
       e2 == Read(pt, <<ROOT, vpn[3]>>)
       e1 == Read(pt, <<TableOf(e2), vpn[2]>>)
       e0 == Read(pt, <<TableOf(e1), vpn[1]>>)
   IN IF ~is_valid(e2) THEN [ level |-> NONE, e |-> 0 ]
      ELSE IF is_leaf(e2) THEN [ level |-> 2, e |-> e2 ]
      ELSE IF ~is_valid(e1) THEN [ level |-> NONE, e |-> 0 ]
      ELSE IF is_leaf(e1) THEN [ level |-> 1, e |-> e1 ]
      ELSE IF ~is_valid(e0) THEN [ level |-> NONE, e |-> 0 ]
      ELSE IF is_leaf(e0) THEN [ level |-> 0, e |-> e0 ]
      ELSE [ level |-> NONE, e |-> 0 ]

\* The address whose bits above 12 + 9 * level are those of the frame and
\* whose bits below are those of vaddr.
HugeAddress(fr, vaddr, level) ==
   Addr(((fr \div (512 ^ level)) * (512 ^ level)) + (vaddr.page % (512 ^ level)), vaddr.off)

\* C34: virt_to_phys stops at a leaf of level i and returns the leaf's frame
\* address with its low 12 + 9 * i bits replaced by those of vaddr; so after
\* map(root, vaddr, paddr, bits, level) with level 1 or 2 every address of
\* the huge page of vaddr translates to the base of paddr plus its offset.
C34_HugeLeaves ==
   [][ \A vaddr \in MapVaddrs, off \in Offsets :
          VirtToPhys(Addr(vaddr.page, off))
          => LET va == Addr(vaddr.page, off)
                 w == WalkLeaf(ptes, va)
             IN /\ w.level # NONE
                   => /\ mcall'.outcome = "ok" /\ mcall'.some
                      /\ mcall'.ret = HugeAddress(TableOf(w.e), va, w.level)
                /\ ( /\ mcall.op = "map" /\ mcall.outcome = "ok"
                     /\ mcall.level \in {1, 2}
                     /\ SameMapping(va.page, mcall.vaddr, mcall.level) )
                   => /\ mcall'.outcome = "ok" /\ mcall'.some
                      /\ mcall'.ret = HugeAddress(mcall.paddr.page, va, mcall.level) ]_vars

\* C35: for every content of the tables, a level-0 entry that is valid with
\* no R/W/X bit included, virt_to_phys returns Some or None; it does not
\* reach `vpn[i - 1]` with i = 0.
C35_NoIndexUnderflow ==
   [][ \A vaddr \in MapVaddrs, off \in Offsets :
          VirtToPhys(Addr(vaddr.page, off)) => mcall'.outcome = "ok" ]_vars

\* The entries on the path of vaddr down to level, by the indices of vaddr.
VaddrPath(pt, vaddr, level) ==
   LET vpn == VPN(vaddr)
       p2 == <<ROOT, vpn[3]>>
       p1 == <<TableOf(Read(pt, p2)), vpn[2]>>
       p0 == <<TableOf(Read(pt, p1)), vpn[1]>>
   IN IF level = 2 THEN {p2} ELSE IF level = 1 THEN {p2, p1} ELSE {p2, p1, p0}

\* C36: after map(root, v1, p1, ..) and then map(root, v2, p2, ..) with v1
\* and v2 in different pages, virt_to_phys(root, v1) still returns p1; the
\* second map changes no entry outside the path of v2 and allocates a table
\* only for an entry on that path that was invalid.
C36_MapIsLocal ==
   [][ ( /\ mcall.op = "map" /\ mcall.outcome = "ok" /\ mcall.maps = 1
         /\ mcall'.op = "map" /\ mcall'.outcome = "ok" /\ mcall'.maps = 2
         /\ ~SameMapping(mcall.vaddr.page, mcall'.vaddr, mcall'.level)
         /\ ~SameMapping(mcall'.vaddr.page, mcall.vaddr, mcall.level) )
       => ( /\ virt_to_phys(ptes', mcall.vaddr)
                  = [ some |-> TRUE, outcome |-> "ok",
                      ret |-> HugeAddress(mcall.paddr.page, mcall.vaddr, mcall.level) ]
            /\ \A x \in DOMAIN ptes \cup DOMAIN ptes' :
                  Read(ptes', x) # Read(ptes, x)
                  => x \in VaddrPath(ptes', mcall'.vaddr, mcall'.level)
            /\ Cardinality(TableFrames') - Cardinality(TableFrames)
                  = Cardinality({x \in VaddrPath(ptes', mcall'.vaddr, mcall'.level) :
                                    /\ ~is_valid(Read(ptes, x))
                                    /\ is_valid(Read(ptes', x))
                                    /\ is_branch(Read(ptes', x))}) ) ]_vars

\* paging::allocate_zeroed(1) can only return null on Frame Table t.
Exhausted(b, t) == \A r \in allocate(b, t, 1) : r.outcome = "null"

\* C37: when map needs a new intermediate table and allocate_zeroed returns
\* null, map installs no valid branch entry whose frame address is 0, does
\* not descend into address 0, writes no leaf, and leaves the tables as they
\* were before the call.
C37_MapExhausted ==
   [][ ( mcall'.op = "map" /\ mcall'.maps = mcall.maps + 1 )
       => ( /\ \A x \in DOMAIN ptes' :
                  ~(is_valid(ptes'[x]) /\ is_branch(ptes'[x]) /\ TableOf(ptes'[x]) = 0)
            /\ ( /\ Exhausted(build, ftab)
                 /\ mcall'.level < 2
                 /\ BitAnd(mcall'.bits, 14) # 0
                 /\ ~is_valid(Read(ptes, <<ROOT, PPN(mcall'.paddr)[3]>>)) )
               => ( ptes' = ptes /\ mcall'.outcome \notin {"panic", "ub"} ) ) ]_vars


\* The byte ranges [a, a + m) and [b, b + n) share a byte.
Overlap(a, m, b, n) == a < b + n /\ b < a + m

\* Caller p is inside a move, between the end of its allocate step and the
\* start of its deallocate step.
BetweenSteps(p) == frame[p].op \in Moves /\ pc[p] \in {"copy", "d_lock"}

\* C38: __rustc_reallocate takes the heap lock once for its allocate step and
\* once for its deallocate step and holds it neither during the copy nor
\* while it waits for the second lock, so it never waits for a lock it holds
\* itself; and an allocation another caller completes between the two steps
\* returns a block that shares no byte with the old block or the new block
\* of the move.
C38_ReallocateInterleaving ==
   /\ [](\A p \in Procs : BetweenSteps(p) => lock # p)
   /\ [][ \A p, q \in Procs :
            ( /\ p # q /\ BetweenSteps(p)
              /\ frame[q].op \in {"g_alloc", "l_alloc"}
              /\ pc[q] = "a_held" /\ pc'[q] = "done" )
            => ( /\ ~Overlap(frame'[q].new_ptr, frame'[q].layout.size,
                             frame[p].ptr, frame[p].layout.size)
                 /\ ~Overlap(frame'[q].new_ptr, frame'[q].layout.size,
                             frame[p].new_ptr, frame[p].new_size) ) ]_vars


\* ceil(size / PAGE_SIZE)
PagesFor(size) == (size + PAGE_SIZE - 1) \div PAGE_SIZE

\* The pages a block of `size` bytes at `pointer` lies in.
BlockPages(pointer, size) ==
   LET first == (pointer - ALLOC_START) \div PAGE_SIZE
   IN first .. (first + PagesFor(size) - 1)

\* C39: a page-backed Global::allocate(layout) that returns a block marks in
\* the Frame Table exactly the ceil(layout.size() / PAGE_SIZE) pages the
\* block lies in, which were free, and leaves every other entry as it was;
\* Global::deallocate of a returned pointer returns normally, frees exactly
\* those pages and leaves every other entry as it was.
C39_GlobalPages ==
   [][ /\ ( pcall'.op = "global_allocate" /\ pcall'.pages > 0
            /\ pcall'.outcome \notin {"null"} )
          => /\ pcall'.outcome = "ok"
             /\ LET want == BlockPages(pcall'.ret, pcall'.pages)
                IN /\ want \subseteq PageIndex
                   /\ \A k \in PageIndex :
                         IF k \in want
                         THEN is_free(ftab[k]) /\ is_taken(ftab'[k])
                         ELSE ftab'[k] = ftab[k]
       /\ ( pcall'.op = "global_deallocate" /\ pcall'.pages > 0 )
          => /\ pcall'.outcome = "ok"
             /\ LET want == BlockPages(pcall'.ptr, pcall'.pages)
                IN \A k \in PageIndex :
                      IF k \in want THEN is_free(ftab'[k]) ELSE ftab'[k] = ftab[k] ]_vars


\* Caller p is inside the locked statement of __rustc_allocate or
\* __rustc_deallocate.
InFacade(p) == pc[p] \in {"a_held", "d_held"}

\* C40: HEAP is None until heap::init runs, and only heap::init installs a
\* heap; a __rustc_allocate or __rustc_deallocate that reaches the heap while
\* it is None ends in the panic state, returns no pointer and changes neither
\* the heap nor the callers' blocks; and once init has run the heap stays the
\* one init installed (same base, size, block size and number of free
\* lists), and no facade call panics for a missing heap.
C40_InitOrdering ==
   /\ [](~heap.some => heap = NoHeap /\ \A p \in Procs : pc[p] # "done")
   /\ [][ /\ (~heap.some /\ heap'.some)
             => ( last'.op = "init" /\ pc' = pc
                  /\ \E cfg \in FacadeConfigs :
                        heap' = HeapNew(mem, cfg[1], cfg[2], cfg[3]).h )
          /\ \A p \in Procs :
                (InFacade(p) /\ ~heap.some /\ pc'[p] # pc[p])
                => ( /\ pc'[p] = "panicked" /\ frame'[p].outcome = "panic"
                     /\ frame'[p].new_ptr = NULL
                     /\ heap' = heap /\ mem' = mem /\ live' = live )
          /\ heap.some
             => ( /\ heap'.some
                  /\ heap'.heap_base = heap.heap_base
                  /\ heap'.heap_size = heap.heap_size
                  /\ heap'.min_block_size = heap.min_block_size
                  /\ Len(heap'.free_lists) = Len(heap.free_lists)
                  /\ \A p \in Procs :
                        (InFacade(p) /\ pc'[p] = "panicked") => frame'[p].heap_err ) ]_vars

\* One caller's __rustc_deallocate reached the heap before heap::init and
\* panicked; init then ran, and another caller's allocation has returned a
\* block of the installed heap.
C40_Witness ==
   \E p, q \in Procs :
      /\ pc[p] = "panicked" /\ frame[p].op = "rustc_dealloc" /\ frame[p].ptr # NULL
      /\ heap.some
      /\ pc[q] = "done" /\ frame[q].op = "g_alloc" /\ frame[q].new_ptr = heap.heap_base

====
